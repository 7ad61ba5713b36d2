------------------------ MODULE EndpointSelectionProofs ------------------------
(* Proof about EndpointSelection, for pools of every size.                       *)
EXTENDS EndpointSelection, TLAPS

\* The remainder of what lies k full rounds, at most two, past e.
LEMMA FullRounds ==
    ASSUME NEW N \in Nat \ {0}, NEW e \in 0 .. N - 1
    PROVE  e % N = e /\ (e + N) % N = e /\ (e + 2 * N) % N = e
  OBVIOUS

LEMMA EvenHalf ==
    ASSUME NEW m \in Int, m % 2 = 0
    PROVE  \E i \in Int : m = 2 * i
<1>1. m = 2 * (m \div 2) /\ m \div 2 \in Int
  OBVIOUS
<1> QED
  BY <1>1

\* Some iteration of pick in a pool of N endpoints, called with the counter at s, looks at e.
LooksAt(N, s, e) == \E i \in 0 .. N - 1 : ((s + i + 1) + i) % N = e

\* Candidates are two apart; when N is odd, going N times two steps comes by every
\* residue: e - s - 1 is made even and non-negative by adding N at most twice, and
\* its half is the iteration that looks at e.
LEMMA OddStride ==
    ASSUME NEW N \in Nat \ {0}, N % 2 = 1, NEW s \in 0 .. N - 1, NEW e \in 0 .. N - 1
    PROVE  LooksAt(N, s, e)
<1> DEFINE d == e - s - 1
<1>1. d \in Int /\ -N <= d /\ d <= N - 2
  OBVIOUS
<1>2. ASSUME NEW k \in {0, 1, 2}, (d + k * N) % 2 = 0, 0 <= d + k * N, d + k * N <= 2 * N - 2
      PROVE  LooksAt(N, s, e)
  <2>1. PICK i \in Int : d + k * N = 2 * i
    <3>1. d + k * N \in Int
      BY <1>1, <1>2
    <3> QED
      BY <1>2, <3>1, EvenHalf
  <2>2. i \in 0 .. N - 1 /\ (s + i + 1) + i = e + k * N
    BY <1>2, <2>1
  <2>3. (e + k * N) % N = e
    BY <1>2, FullRounds
  <2> QED
    BY <2>2, <2>3 DEF LooksAt
<1>3. CASE d >= 0 /\ d % 2 = 0
  BY <1>1, <1>2, <1>3
<1>4. CASE d % 2 = 1
  BY <1>1, <1>2, <1>4
<1>5. CASE d < 0 /\ d % 2 = 0
  BY <1>1, <1>2, <1>5
<1> QED
  BY <1>1, <1>3, <1>4, <1>5

\* When N is even, it comes by what lies an odd number of places from s.
LEMMA EvenStride ==
    ASSUME NEW N \in Nat \ {0}, N % 2 = 0, NEW s \in 0 .. N - 1, NEW e \in 0 .. N - 1,
           (e - s) % 2 = 1
    PROVE  LooksAt(N, s, e)
<1> DEFINE d == e - s - 1
<1>1. d \in Int /\ -N <= d /\ d <= N - 2
  OBVIOUS
<1>2. ASSUME NEW k \in {0, 1}, (d + k * N) % 2 = 0, 0 <= d + k * N, d + k * N <= 2 * N - 2
      PROVE  LooksAt(N, s, e)
  <2>1. PICK i \in Int : d + k * N = 2 * i
    <3>1. d + k * N \in Int
      BY <1>1, <1>2
    <3> QED
      BY <1>2, <3>1, EvenHalf
  <2>2. i \in 0 .. N - 1 /\ (s + i + 1) + i = e + k * N
    BY <1>2, <2>1
  <2>3. (e + k * N) % N = e
    BY <1>2, FullRounds
  <2> QED
    BY <2>2, <2>3 DEF LooksAt
<1>3. d % 2 = 0 /\ (d + N) % 2 = 0
  BY <1>1
<1>4. CASE d >= 0
  BY <1>1, <1>2, <1>3, <1>4
<1>5. CASE d < 0
  BY <1>1, <1>2, <1>3, <1>5
<1> QED
  BY <1>1, <1>4, <1>5

\* And by nothing else.
LEMMA EvenStrideOnly ==
    ASSUME NEW N \in Nat \ {0}, N % 2 = 0, NEW s \in 0 .. N - 1, NEW i \in 0 .. N - 1,
           NEW e \in 0 .. N - 1, ((s + i + 1) + i) % N = e
    PROVE  (e - s) % 2 = 1
<1> DEFINE c == (s + i + 1) + i
<1>1. PICK h \in Int : N = 2 * h
  BY EvenHalf
<1>2. c \in 0 .. 3 * N - 2 /\ c - s = 2 * i + 1
  OBVIOUS
<1>3. \E k \in {0, 1, 2} : c = e + k * N
  <2>1. c < N => c % N = c
    BY <1>2
  <2>2. N <= c /\ c < 2 * N => c % N = c - N
    BY <1>2
  <2>3. 2 * N <= c => c % N = c - 2 * N
    BY <1>2
  <2> QED
    BY <1>2, <2>1, <2>2, <2>3
<1>4. PICK k \in {0, 1, 2} : e - s = 2 * i + 1 - k * N
  BY <1>2, <1>3
<1>5. k * N = 2 * (k * h)
  BY <1>1
<1>6. i - k * h \in Int /\ e - s = 2 * (i - k * h) + 1
  BY <1>4, <1>5, <1>1
<1>7. \A j \in Int : (2 * j + 1) % 2 = 1
  OBVIOUS
<1> QED
  BY <1>6, <1>7

-----------------------------------------------------------------------------
\* Iteration i found its candidate not servable.
Refused(i) == Candidate(start + i + 1, i) \notin servable

\* The iterations made so far found nothing; and what pick returned is what the
\* last of them found, or the fallback when all count of them found nothing.
IInv ==
    /\ count \in Nat \ {0} /\ servable \subseteq Endpoints /\ start \in Endpoints
    /\ index \in 0 .. count /\ next \in Nat
    /\ pick \in [endpoint: Endpoints, permitted: BOOLEAN, done: BOOLEAN]
    /\ ~pick.done => next = start + index /\ \A i \in 0 .. index - 1 : Refused(i)
    /\ pick.done => IF pick.permitted
                    THEN pick.endpoint \in servable /\ index < count
                         /\ pick.endpoint = Candidate(start + index + 1, index)
                    ELSE \A i \in 0 .. count - 1 : Refused(i)

LEMMA InitIInv == Init => IInv
<1> SUFFICES ASSUME Init PROVE IInv
  OBVIOUS
<1>1. count \in Nat \ {0} /\ servable \subseteq Endpoints /\ start \in Endpoints
  BY SelectionAssumption DEF Init
<1>2. index = 0 /\ index \in 0 .. count /\ next = start /\ next \in Nat /\ 0 \in Endpoints
  BY <1>1 DEF Init, Endpoints
<1>3. pick \in [endpoint: Endpoints, permitted: BOOLEAN, done: BOOLEAN] /\ ~pick.done
  BY <1>2 DEF Init, Pending
<1>4. next = start + index /\ \A i \in 0 .. index - 1 : Refused(i)
  BY <1>1, <1>2 DEF Endpoints
<1> QED
  BY <1>1, <1>2, <1>3, <1>4 DEF IInv

LEMMA StepIInv == IInv /\ [Next]_vars => IInv'
<1> SUFFICES ASSUME IInv, [Next]_vars PROVE IInv'
  OBVIOUS
<1>1. CASE Choose
  <2> DEFINE c == Candidate(next', index)
  <2>1. /\ UNCHANGED <<count, servable, start, index>> /\ next' = next + 1
        /\ c \in servable /\ pick' = [endpoint |-> c, permitted |-> TRUE, done |-> TRUE]
    BY <1>1 DEF Choose
  <2>2. c \in Endpoints /\ Endpoints' = Endpoints
    BY <2>1 DEF IInv, Endpoints
  <2>3. pick' \in [endpoint: Endpoints', permitted: BOOLEAN, done: BOOLEAN]
    BY <2>1, <2>2
  <2>4. pick'.done /\ pick'.permitted /\ pick'.endpoint \in servable'
    BY <2>1
  <2>6. index' < count' /\ pick'.endpoint = Candidate(start + index + 1, index)'
    BY <1>1, <2>1 DEF IInv, Choose, MoreToTry, Candidate, Endpoints
  <2>5. next' \in Nat
    BY <2>1 DEF IInv
  <2> QED
    BY <2>1, <2>2, <2>3, <2>4, <2>5, <2>6 DEF IInv
<1>2. CASE PassOver
  <2>1. /\ UNCHANGED <<count, servable, start, pick>> /\ ~pick.done
        /\ index' = index + 1 /\ next' = next + 1 /\ index < count
    BY <1>2 DEF PassOver, MoreToTry
  <2>2. index' \in 0 .. count /\ next' \in Nat /\ next' = start + index'
    BY <2>1 DEF IInv, Endpoints
  <2>3. Refused(index)
    BY <1>2, <2>1 DEF IInv, PassOver, Refused, Endpoints
  <2>4. \A i \in 0 .. index' - 1 : Refused(i)
    BY <2>1, <2>3 DEF IInv
  <2>5. \A i \in 0 .. index' - 1 : Refused(i)'
    BY <2>1, <2>4 DEF Refused, Candidate
  <2> QED
    BY <2>1, <2>2, <2>5 DEF IInv, Endpoints
<1>3. CASE FallBack
  <2>1. index = count /\ UNCHANGED <<count, servable, start, next, index>> /\ ~pick.done
    BY <1>3 DEF IInv, FallBack, MoreToTry
  <2>2. pick' = [endpoint |-> 0, permitted |-> FALSE, done |-> TRUE] /\ 0 \in Endpoints
    BY <1>3 DEF IInv, FallBack, Endpoints
  <2>3. \A i \in 0 .. count - 1 : Refused(i)'
    BY <2>1 DEF IInv, Refused, Candidate
  <2> QED
    BY <2>1, <2>2, <2>3 DEF IInv, Endpoints
<1>4. CASE UNCHANGED vars
  BY <1>4 DEF IInv, vars, Endpoints, Refused, Candidate
<1> QED
  BY <1>1, <1>2, <1>3, <1>4 DEF Next

\* What pick returned was looked at, so it is within reach; and if every iteration found
\* nothing, they came by all that is.
LEMMA ReachOfInv == IInv => SelectsWithinReach
<1> SUFFICES ASSUME IInv, pick.done
             PROVE  IF WithinReach = {} THEN ~pick.permitted
                    ELSE pick.permitted /\ pick.endpoint \in WithinReach
  BY DEF SelectsWithinReach
<1>1. count \in Nat \ {0} /\ start \in 0 .. count - 1 /\ servable \subseteq 0 .. count - 1
  BY DEF IInv, Endpoints
<1>2. count % 2 \in {0, 1}
  BY <1>1
<1>3. CASE pick.permitted
  <2>1. /\ pick.endpoint \in servable /\ index \in 0 .. count - 1
        /\ ((start + index + 1) + index) % count = pick.endpoint
    BY <1>1, <1>3 DEF IInv, Candidate
  <2>2. count % 2 = 0 => (pick.endpoint - start) % 2 = 1
    BY <1>1, <2>1, EvenStrideOnly
  <2> QED
    BY <1>2, <1>3, <2>1, <2>2 DEF WithinReach
<1>4. CASE ~pick.permitted
  <2>1. ASSUME NEW e \in WithinReach PROVE FALSE
    <3>1. e \in servable /\ e \in 0 .. count - 1 /\ (count % 2 = 1 \/ (e - start) % 2 = 1)
      BY <1>1, <2>1 DEF WithinReach
    <3>2. LooksAt(count, start, e)
      BY <1>1, <1>2, <3>1, OddStride, EvenStride
    <3>3. PICK i \in 0 .. count - 1 : ((start + i + 1) + i) % count = e
      BY <3>2 DEF LooksAt
    <3>4. Refused(i)
      BY <1>4, <3>3 DEF IInv
    <3> QED
      BY <3>1, <3>3, <3>4 DEF Refused, Candidate
  <2> QED
    BY <1>4, <2>1
<1> QED
  BY <1>3, <1>4 DEF IInv

\* Wherever the shared counter stands, pick misses no servable endpoint of a pool of any
\* odd size, and in a pool of any even size those of one half and only those.
THEOREM ReachCovered == Spec => []SelectsWithinReach
  BY ReachOfInv, InitIInv, StepIInv, PTL DEF Spec
=============================================================================
