------------------------------ MODULE RateLimit ------------------------------
(***************************************************************************)
(* The rate limiter of a connection's reading branch (macro rate_limit!,   *)
(* src/src/net.rs).  A line costs points; a client that spent more than    *)
(* Burst of them waits Rate milliseconds for each point above.  Time is in *)
(* milliseconds since the connection started.  What the code assigns after *)
(* its delay is assigned before it here: nothing reads it in between.      *)
(***************************************************************************)
EXTENDS Integers

CONSTANTS Rate, Burst,
          Points,   \* what a line may cost
          Word,     \* number of values of a u32
          MaxIdle   \* bound: the clock stops here unless the reader is waiting

ASSUME RateAssumption ==
    /\ Rate \in Nat \ {0} /\ Burst \in Nat /\ Word \in Nat /\ MaxIdle \in Nat
    /\ Points \subseteq Nat
    /\ \A p \in Points : Burst + p < Word /\ p * Rate < Word

VARIABLES used_points, last_round,
          wake,   \* when the delay of the last line ends
          now,
          total   \* history: the points of all lines so far

rateVars == <<used_points, last_round, wake, now, total>>

RateInit == used_points = 0 /\ last_round = 0 /\ wake = 0 /\ now = 0 /\ total = 0

Awake == wake <= now

Lesser(a, b) == IF a < b THEN a ELSE b

\* Mutant: the time that was waited for is counted again as time that passed.
charge_twice(p) ==
    LET spent == (used_points + p) % Word
        left  == spent - Lesser(spent, Lesser(now - last_round, Word - 1) \div Rate)
        wait  == ((left - Burst) * Rate) % Word
    IN  /\ Awake
        /\ total' = total + p
        /\ \/ /\ spent <= Burst
              /\ used_points' = spent
              /\ UNCHANGED <<last_round, wake>>
           \/ /\ spent > Burst /\ left <= Burst
              /\ used_points' = left
              /\ last_round' = now
              /\ UNCHANGED wake
           \/ /\ spent > Burst /\ left > Burst
              /\ used_points' = Burst
              /\ last_round' = now
              /\ wake' = now + wait
        /\ UNCHANGED now

\* A line that cost p points was handled.  The points and the wait are u32; the elapsed
\* time is capped to one; saturating_sub.
charge(p) ==
    LET spent == (used_points + p) % Word
        left  == spent - Lesser(spent, Lesser(now - last_round, Word - 1) \div Rate)
        wait  == ((left - Burst) * Rate) % Word
    IN  /\ Awake
        /\ total' = total + p
        /\ \/ /\ spent <= Burst
              /\ used_points' = spent
              /\ UNCHANGED <<last_round, wake>>
           \/ /\ spent > Burst /\ left <= Burst
              /\ used_points' = left
              /\ last_round' = now
              /\ UNCHANGED wake
           \/ /\ spent > Burst /\ left > Burst
              /\ used_points' = Burst
              /\ last_round' = now + wait
              /\ wake' = now + wait
        /\ UNCHANGED now

\* Time passes.
Tick ==
    /\ now < MaxIdle \/ ~Awake
    /\ now' = now + 1
    /\ UNCHANGED <<used_points, last_round, wake, total>>

RateNext == Tick \/ \E p \in Points : charge(p)

RateSpec == RateInit /\ [][RateNext]_rateVars

-----------------------------------------------------------------------------
RateTypeOK ==
    /\ used_points \in Nat /\ last_round \in Nat /\ wake \in Nat /\ now \in Nat /\ total \in Nat

\* A client is never let to read a line while the points of its earlier lines exceed
\* Burst plus one for every Rate milliseconds of the connection, whatever the lines cost
\* and whenever they came, u32 arithmetic and rounding included.
RateBounded == Awake => total * Rate <= Burst * Rate + now

\* What RateBounded needs: the points that are not paid for by the time before last_round
\* are in used_points, which never passes Burst.
RateInv ==
    /\ RateTypeOK
    /\ used_points <= Burst
    /\ total * Rate <= used_points * Rate + last_round
    /\ Awake => last_round <= now
    /\ last_round > now => last_round = wake

=============================================================================
