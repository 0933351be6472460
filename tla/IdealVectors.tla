---------------------------- MODULE IdealVectors ----------------------------
(***************************************************************************)
(* What the primitives of a protocol promise (class Protocol): the shared  *)
(* vectors hold plaintext words, each under an encoding, and a primitive   *)
(* computes on them as if nothing were shared.  A vector is one word here; *)
(* the primitives are elementwise.                                         *)
(***************************************************************************)
EXTENDS Words

CONSTANTS Registers, Divisor

DivisorAssumption == Divisor \in Nat \ {0}

VARIABLES
    value,     \* value[r]: the word of register r and its encoding
    opened,    \* what the last opening returned
    call       \* the primitive that was called last, and its arguments

vars == <<value, opened, call>>

Vector(enc, w) == [enc |-> enc, word |-> w]
NoVector == Vector("none", 0)
NotOpened == Size

Init ==
    /\ value = [r \in Registers |-> NoVector]
    /\ opened = NotOpened
    /\ call = <<"none", <<>>>>

Is(r, enc) == value[r].enc = enc
Call(name, args) == call' = <<name, args>>
Write(r, v) == value' = [value EXCEPT ![r] = v] /\ UNCHANGED opened
WriteBoth(r1, v1, r2, v2) ==
    /\ r1 # r2
    /\ value' = [value EXCEPT ![r1] = v1, ![r2] = v2]
    /\ UNCHANGED opened

Share(r, enc, w) == Call("share", <<r, enc, w>>) /\ Write(r, Vector(enc, w))

(* The elementwise operations of two vectors, and of one of bits: the      *)
(* complement, the last bit and its negation, the sign, and the last bit   *)
(* as a number.                                                            *)
Binary(name, x, y, z, enc, op(_, _, _)) ==
    /\ Call(name, <<x, y, z, enc>>) /\ Is(x, enc) /\ Is(y, enc)
    /\ Write(z, Vector(enc, op(enc, value[x].word, value[y].word)))
Unary(name, x, z, enc, op(_)) ==
    /\ Call(name, <<x, z>>) /\ Is(x, "B")
    /\ Write(z, Vector(enc, op(value[x].word)))

Flipped(w) == 1 - LSB(w)

Elementwise(x, y, z) ==
    \/ \E enc \in Encodings :
           \/ Binary("add", x, y, z, enc, Add)
           \/ Binary("sub", x, y, z, enc, Sub)
           \/ Binary("multiply", x, y, z, enc, Mul)
    \/ Unary("not", x, z, "B", Complement)
    \/ Unary("not_1", x, z, "B", Flipped)
    \/ Unary("mask", x, z, "B", LSB)
    \/ Unary("ltz", x, z, "B", Sign)
    \/ Unary("b2a_bit", x, z, "A", LSB)

(* Two bit vectors that add up to the word: an adder circuit joins them.   *)
Redistribute(x, r1, r2) ==
    /\ Call("redistribute", <<x, r1, r2>>) /\ Is(x, "A")
    /\ \E w \in Word : WriteBoth(r1, Vector("B", w), r2, Vector("B", Minus(value[x].word, w)))

(* A quotient and the error it leaves, less one divisor: not negative if   *)
(* one is to be added.  The error e reaches Divisor when both parts are    *)
(* negative multiples; the quotient is then two too small.                 *)
DivConst(x, r1, r2) ==
    /\ Call("div", <<x, r1, r2>>) /\ Is(x, "A")
    /\ \E q, e \in Word :
           /\ Signed(e) \in -Divisor .. Divisor
           /\ Plus(Times(Divisor, Plus(q, 1)), e) = value[x].word
           /\ WriteBoth(r1, Vector("A", q), r2, Vector("A", e))

Open(x) ==
    /\ Call("open", <<x>>) /\ value[x] # NoVector
    /\ opened' = value[x].word
    /\ UNCHANGED value

(* New shares of the same word, and the check of the joint messages.       *)
Reshare(x) == Call("reshare", <<x>>) /\ value[x] # NoVector /\ UNCHANGED <<value, opened>>
Check == Call("check", <<>>) /\ UNCHANGED <<value, opened>>

Next ==
    \/ \E x \in Registers :
           Open(x) \/ Reshare(x) \/ \E enc \in Encodings, w \in Word : Share(x, enc, w)
    \/ \E x, y, z \in Registers :
           Elementwise(x, y, z) \/ Redistribute(x, y, z) \/ DivConst(x, y, z)
    \/ Check

Spec == Init /\ [][Next]_vars
=============================================================================
