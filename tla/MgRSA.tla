--------------------------------- MODULE MgRSA ---------------------------------
(* mgRSA.c: a program that asks for p, q and e, looks for d by trying, and      *)
(* enciphers or deciphers a number; the model does the one and then the other. *)
EXTENDS Integers, FiniteSets

CONSTANTS Primes,    \* for p and q, small enough that no product overflows int
          Exponents  \* what is given for e, once or twice

RSAAssumption ==
    /\ Primes \subseteq 2 .. 200 /\ Exponents \subseteq Int
    /\ \A p \in Primes : \A x \in 2 .. p - 1 : p % x # 0

VARIABLES p, q, e, again, d,  \* again: e has been asked for a second time
          m, a, b, r,         \* the message; candp's base, exponent and result
          at                  \* "e", "d", "cipher", "plain" or "done"
vars == <<p, q, e, again, d, m, a, b, r, at>>

n == p * q
t == (p - 1) * (q - 1)

Coprime(x, y) == \A z \in 2 .. x : ~(x % z = 0 /\ y % z = 0)

\* The caller gives an e with an inverse where it is in range: without one the
\* search below has nothing to find.
Proper(x) == 1 <= x /\ x <= t /\ Coprime(x, t)

Init == /\ p \in Primes /\ q \in Primes /\ p # q /\ e \in Exponents
        /\ e \in 1 .. t => Proper(e)
        /\ m \in 0 .. n - 1 /\ again = FALSE
        /\ d = 0 /\ a = 0 /\ b = 0 /\ r = 0 /\ at = "e"

\* Mutant of OutOfRange: one of the two tests is missing.
OutOfRange_Low(x) == x > t

OutOfRange(x) == x < 1 \/ x > t

\* A second e is taken as it is.
AskAgain(x) == /\ at = "e" /\ ~again /\ OutOfRange(e) /\ Proper(x)
               /\ e' = x /\ again' = TRUE /\ UNCHANGED <<p, q, d, m, a, b, r, at>>

Taken == /\ at = "e" /\ (again \/ ~OutOfRange(e)) /\ at' = "d" /\ d' = 1
         /\ UNCHANGED <<p, q, e, again, m, a, b, r>>

\* Mutant of IsInverse: the product is reduced by n.
IsInverse_N(x) == (e * x) % n = 1

IsInverse(x) == (e * x) % t = 1

TryNext == /\ at = "d" /\ ~IsInverse(d) /\ d' = d + 1
           /\ UNCHANGED <<p, q, e, again, m, a, b, r, at>>

Candp(x, y) == a' = x /\ b' = y + 1 /\ r' = 1

Encipher == /\ at = "d" /\ IsInverse(d) /\ at' = "cipher" /\ Candp(m, e)
            /\ UNCHANGED <<p, q, e, again, d, m>>

Turn == /\ at \in {"cipher", "plain"} /\ b # 1
        /\ r' = (r * a) % n /\ b' = b - 1
        /\ UNCHANGED <<p, q, e, again, d, m, a, at>>

Decipher == /\ at = "cipher" /\ b = 1 /\ at' = "plain" /\ Candp(r, d)
            /\ UNCHANGED <<p, q, e, again, d, m>>

Finish == /\ at = "plain" /\ b = 1 /\ at' = "done"
          /\ UNCHANGED <<p, q, e, again, d, m, a, b, r>>

Next == \/ \E x \in Exponents : AskAgain(x)
        \/ Taken \/ TryNext \/ Encipher \/ Turn \/ Decipher \/ Finish

Spec == Init /\ [][Next]_vars

------------------------------------------------------------------------------

\* Deciphering gives the message back, for every message below n.
RoundTrip == at = "done" => r = m

\* The search for d ends, and at the latest at t.
KeyWithinReach == d <= t
==============================================================================
