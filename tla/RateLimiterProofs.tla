------------------------- MODULE RateLimiterProofs -------------------------
(***************************************************************************)
(* The limiter in front of the registrations is exact, for any limit,      *)
(* window, addresses and sequence of requests (router.go, 301-331).  The   *)
(* map forgets: the proof is that what it forgets no longer counts, so     *)
(* that the hits it keeps of an address are at any time the requests that  *)
(* went in during the last window (HitsAreAdmitted).                       *)
(***************************************************************************)
EXTENDS RateLimiter, FiniteSetTheorems, TLAPS

(* Admitted, of any log.                                                    *)
AdmittedOf(past, a, n, t) ==
  {m \in 1..n : past[m].from = a /\ past[m].ok /\ past[m].at + Window > t}

(* Sets of requests, as positions in the log, are finite and comparable.    *)
LEMMA PositionsFinite ==
  ASSUME NEW n \in Nat, NEW S \in SUBSET (1..n), NEW T \in SUBSET S
  PROVE  /\ IsFiniteSet(S) /\ Cardinality(S) \in Nat
         /\ IsFiniteSet(T) /\ Cardinality(T) \in Nat
         /\ Cardinality(T) <= Cardinality(S)
<1>1. IsFiniteSet(1..n)
  BY FS_Interval
<1>2. IsFiniteSet(S)
  BY <1>1, FS_Subset
<1> QED BY <1>2, FS_Subset, FS_CardinalityType

(* The log and the map after a call of allow.                               *)
LEMMA AllowSteps ==
  ASSUME LimiterTypeOK, NEW a \in Addresses, Allow(a)
  PROVE  LET N == Len(log)
             ok == Cardinality(Kept(a)) < Limit
         IN /\ N \in Nat /\ DOMAIN log = 1..N /\ DOMAIN log' = 1..(N + 1)
            /\ Len(log') = N + 1
            /\ \A n \in 1..N : log'[n] = log[n] /\ log[n] \in Requests
            /\ log'[N + 1] = [from |-> a, at |-> clock, ok |-> ok]
            /\ log' \in Seq(Requests) /\ clock' = clock
            /\ hits'[a] = Kept(a) \cup (IF ok THEN {N + 1} ELSE {})
            /\ \A b \in Addresses \ {a} : hits'[b] = hits[b]
<1> DEFINE ok == Cardinality(Kept(a)) < Limit
<1>1. ok \in BOOLEAN
  OBVIOUS
<1>2. [from |-> a, at |-> clock, ok |-> ok] \in Requests
  BY <1>1 DEF Requests, LimiterTypeOK
<1> HIDE DEF ok
<1>3. log' = Append(log, [from |-> a, at |-> clock, ok |-> ok])
  BY DEF Allow, ok
<1>4. log \in Seq(Requests)
  BY DEF LimiterTypeOK
<1>5. hits' = [hits EXCEPT ![a] = Kept(a) \cup (IF ok THEN {Len(log) + 1} ELSE {})]
  BY DEF Allow, ok
<1>6. clock' = clock
  BY DEF Allow
<1>7. hits'[a] = Kept(a) \cup (IF ok THEN {Len(log) + 1} ELSE {})
      /\ \A b \in Addresses \ {a} : hits'[b] = hits[b]
  BY <1>5 DEF LimiterTypeOK
<1> QED BY <1>2, <1>3, <1>4, <1>6, <1>7 DEF ok

(* A request that is answered changes nothing about the ones before it.     *)
LEMMA AdmittedGrows ==
  ASSUME LimiterTypeOK, NEW a \in Addresses, Allow(a),
         NEW b \in Addresses, NEW t \in Nat
  PROVE  /\ \A n \in 0..Len(log) : AdmittedOf(log', b, n, t) = AdmittedOf(log, b, n, t)
         /\ AdmittedOf(log', b, Len(log) + 1, t) =
              AdmittedOf(log, b, Len(log), t)
                \cup (IF /\ a = b /\ Cardinality(Kept(a)) < Limit
                         /\ clock + Window > t
                      THEN {Len(log) + 1} ELSE {})
<1> DEFINE N == Len(log)
           ok == Cardinality(Kept(a)) < Limit
<1>1. /\ N \in Nat
      /\ \A n \in 1..N : log'[n] = log[n]
      /\ log'[N + 1] = [from |-> a, at |-> clock, ok |-> ok]
  BY AllowSteps
<1>2. ok \in BOOLEAN
  OBVIOUS
<1> HIDE DEF ok
<1>3. /\ log'[N + 1].from = a /\ log'[N + 1].at = clock
      /\ log'[N + 1].ok = ok
  BY <1>1
<1> HIDE DEF N
<1>4. \A n \in 0..N : AdmittedOf(log', b, n, t) = AdmittedOf(log, b, n, t)
  BY <1>1 DEF AdmittedOf
<1>5. AdmittedOf(log', b, N + 1, t) =
        AdmittedOf(log, b, N, t)
          \cup (IF a = b /\ ok /\ clock + Window > t THEN {N + 1} ELSE {})
  <2>1. 1..(N + 1) = (1..N) \cup {N + 1}
    BY <1>1
  <2>2. AdmittedOf(log', b, N + 1, t) =
          {m \in 1..(N + 1) : log'[m].from = b /\ log'[m].ok
                              /\ log'[m].at + Window > t}
    BY DEF AdmittedOf
  <2>3. AdmittedOf(log, b, N, t) =
          {m \in 1..N : log'[m].from = b /\ log'[m].ok /\ log'[m].at + Window > t}
    BY <1>1 DEF AdmittedOf
  <2> QED BY <1>3, <2>1, <2>2, <2>3
<1> QED BY <1>4, <1>5 DEF N, ok

(* The hits that count after a call of allow.                               *)
LEMMA KeptSteps ==
  ASSUME LimiterTypeOK, NEW a \in Addresses, Allow(a), NEW b \in Addresses
  PROVE  Kept(b)' = Kept(b) \cup (IF /\ a = b /\ Cardinality(Kept(a)) < Limit
                                     /\ Window > 0
                                  THEN {Len(log) + 1} ELSE {})
<1> DEFINE N == Len(log)
           ok == Cardinality(Kept(a)) < Limit
<1>1. /\ N \in Nat /\ clock \in Nat /\ Window \in Nat
      /\ \A n \in 1..N : log'[n] = log[n]
      /\ log'[N + 1] = [from |-> a, at |-> clock, ok |-> ok]
      /\ clock' = clock
      /\ hits'[a] = Kept(a) \cup (IF ok THEN {N + 1} ELSE {})
      /\ \A c \in Addresses \ {a} : hits'[c] = hits[c]
  BY AllowSteps, LimiterAssumption DEF LimiterTypeOK
<1>2. hits[b] \subseteq 1..N /\ hits[a] \subseteq 1..N
  BY AllowSteps DEF LimiterTypeOK
<1> HIDE DEF ok
<1>3. log'[N + 1].at + Window > clock <=> Window > 0
  BY <1>1
<1>4. Kept(b)' = {n \in hits'[b] : log'[n].at + Window > clock}
  BY <1>1 DEF Kept
<1> HIDE DEF N
<1>5. CASE a = b
  <2>1. Kept(a) \subseteq 1..N
    BY <1>2 DEF Kept
  <2>2. \A n \in Kept(a) : log'[n].at + Window > clock
    BY <1>1, <1>2 DEF Kept
  <2> QED BY <1>1, <1>3, <1>4, <1>5, <2>1, <2>2 DEF N, ok
<1>6. CASE a # b
  <2>1. hits'[b] = hits[b]
    BY <1>1, <1>6
  <2> QED BY <1>1, <1>2, <1>4, <1>6, <2>1 DEF Kept
<1> QED BY <1>5, <1>6

(* The first request finds an empty map.                                    *)
LEMMA LimiterStarts == LimiterInit => LimiterInv
<1> SUFFICES ASSUME LimiterInit PROVE LimiterInv
  OBVIOUS
<1>1. LimiterTypeOK /\ PastIsPast /\ DOMAIN log = {} /\ Len(log) = 0
  BY DEF LimiterInit, LimiterTypeOK, PastIsPast
<1>2. \A a \in Addresses : Kept(a) = {} /\ Admitted(a, Len(log), clock) = {}
  BY <1>1 DEF LimiterInit, Kept, Admitted
<1>3. HitsAreAdmitted /\ HitsAreFew
  <2>1. Cardinality({}) = 0
    BY FS_EmptySet
  <2>2. 0 <= Limit
    BY LimiterAssumption
  <2> QED BY <1>2, <2>1, <2>2 DEF HitsAreAdmitted, HitsAreFew
<1> QED BY <1>1, <1>3 DEF LimiterInv, LimiterIsExact

(* Time takes hits out of the window, of the map and of the log alike.      *)
LEMMA TickKeepsInv == LimiterInv /\ Tick => LimiterInv'
<1> SUFFICES ASSUME LimiterInv, Tick PROVE LimiterInv'
  OBVIOUS
<1>1. /\ clock \in Nat /\ clock' = clock + 1 /\ log' = log /\ hits' = hits
      /\ log \in Seq(Requests) /\ hits \in [Addresses -> SUBSET DOMAIN log]
      /\ Window \in Nat /\ Limit \in Nat
  BY LimiterAssumption DEF LimiterInv, LimiterTypeOK, Tick
<1>2. /\ Len(log) \in Nat /\ DOMAIN log = 1..Len(log)
      /\ \A n \in DOMAIN log : log[n].at \in Nat
  <2>1. Len(log) \in Nat /\ DOMAIN log = 1..Len(log)
    BY <1>1
  <2>2. \A n \in DOMAIN log : log[n] \in Requests
    BY <1>1
  <2> QED BY <2>1, <2>2 DEF Requests
<1>3. LimiterTypeOK' /\ PastIsPast'
  BY <1>1, <1>2 DEF LimiterTypeOK, PastIsPast, LimiterInv
<1>4. ASSUME NEW a \in Addresses
      PROVE  /\ Kept(a)' = {n \in Kept(a) : log[n].at + Window > clock + 1}
             /\ AdmittedOf(log', a, Len(log'), clock') =
                  {n \in AdmittedOf(log, a, Len(log), clock) :
                     log[n].at + Window > clock + 1}
             /\ Kept(a) \subseteq 1..Len(log)
  BY <1>1, <1>2 DEF Kept, AdmittedOf
<1>5. HitsAreAdmitted'
  BY <1>4 DEF HitsAreAdmitted, LimiterInv, Admitted, AdmittedOf
<1>6. HitsAreFew'
  <2> SUFFICES ASSUME NEW a \in Addresses PROVE Cardinality(Kept(a)') <= Limit
    BY <1>1 DEF HitsAreFew
  <2>1. Kept(a)' \subseteq Kept(a)
    BY <1>4
  <2>2. Cardinality(Kept(a)') <= Cardinality(Kept(a))
        /\ Cardinality(Kept(a)') \in Nat /\ Cardinality(Kept(a)) \in Nat
    BY <1>2, <1>4, <2>1, PositionsFinite
  <2> QED BY <1>1, <2>2 DEF HitsAreFew, LimiterInv
<1>7. LimiterIsExact'
  BY <1>1 DEF LimiterIsExact, Admitted, LimiterInv
<1> QED BY <1>3, <1>5, <1>6, <1>7 DEF LimiterInv

(* A request is let in or refused by the requests that count.               *)
LEMMA AllowKeepsInv ==
  ASSUME LimiterInv, NEW a \in Addresses, Allow(a)
  PROVE  LimiterInv'
<1> DEFINE N == Len(log)
           ok == Cardinality(Kept(a)) < Limit
<1>1. LimiterTypeOK
  BY DEF LimiterInv
<1>2. /\ N \in Nat /\ DOMAIN log = 1..N /\ DOMAIN log' = 1..(N + 1)
      /\ Len(log') = N + 1 /\ clock' = clock /\ clock \in Nat
      /\ \A n \in 1..N : log'[n] = log[n] /\ log[n] \in Requests
      /\ log'[N + 1] = [from |-> a, at |-> clock, ok |-> ok]
      /\ log' \in Seq(Requests)
      /\ Window \in Nat /\ Limit \in Nat
  BY <1>1, AllowSteps, LimiterAssumption DEF LimiterTypeOK
<1>3. ok \in BOOLEAN
  OBVIOUS
<1> HIDE DEF ok
<1>4. /\ log'[N + 1].from = a /\ log'[N + 1].at = clock /\ log'[N + 1].ok = ok
  BY <1>2
<1>5. \A b \in Addresses : Kept(b) \subseteq 1..N
  BY <1>1, <1>2 DEF Kept, LimiterTypeOK
<1>6. \A b \in Addresses : IsFiniteSet(Kept(b)) /\ Cardinality(Kept(b)) \in Nat
  BY <1>2, <1>5, PositionsFinite
<1>7. LimiterTypeOK'
  <2>1. hits'[a] \subseteq 1..(N + 1)
    <3>1. hits'[a] = Kept(a) \cup (IF ok THEN {N + 1} ELSE {})
      BY <1>1, AllowSteps DEF ok
    <3>2. Kept(a) \subseteq 1..N /\ N \in Nat
      BY <1>2, <1>5
    <3> HIDE DEF N
    <3> QED BY <3>1, <3>2
  <2>2. \A b \in Addresses \ {a} : hits'[b] \subseteq 1..(N + 1)
    <3>1. \A b \in Addresses \ {a} : hits'[b] = hits[b]
      BY <1>1, AllowSteps
    <3>2. \A b \in Addresses : hits[b] \subseteq 1..N
      BY <1>1, <1>2 DEF LimiterTypeOK
    <3>3. N \in Nat
      BY <1>2
    <3> HIDE DEF N
    <3> QED BY <3>1, <3>2, <3>3
  <2>3. hits' = [hits EXCEPT ![a] = hits'[a]]
    BY <1>1 DEF Allow, LimiterTypeOK
  <2>4. hits' \in [Addresses -> SUBSET (1..(N + 1))]
    BY <1>1, <2>1, <2>2, <2>3 DEF LimiterTypeOK
  <2> QED BY <1>2, <2>4 DEF LimiterTypeOK
<1>8. PastIsPast'
  <2>1. ASSUME NEW n \in 1..(N + 1) PROVE log'[n].at <= clock
    <3>1. CASE n \in 1..N
      BY <1>2, <3>1 DEF LimiterInv, PastIsPast
    <3>2. CASE n = N + 1
      BY <1>2, <1>4, <3>2
    <3> QED BY <1>2, <3>1, <3>2
  <2> QED BY <1>2, <2>1 DEF PastIsPast
<1>9. HitsAreAdmitted'
  <2> SUFFICES ASSUME NEW b \in Addresses
               PROVE  Kept(b)' = AdmittedOf(log', b, N + 1, clock)
    BY <1>2 DEF HitsAreAdmitted, Admitted, AdmittedOf
  <2>1. Kept(b) = AdmittedOf(log, b, N, clock)
    BY DEF LimiterInv, HitsAreAdmitted, Admitted, AdmittedOf
  <2>2. clock + Window > clock <=> Window > 0
    BY <1>2
  <2>3. AdmittedOf(log', b, N + 1, clock) =
          AdmittedOf(log, b, N, clock)
            \cup (IF a = b /\ ok /\ clock + Window > clock THEN {N + 1} ELSE {})
    <3> DEFINE now == clock
    <3>1. now \in Nat
      BY <1>2
    <3> HIDE DEF now
    <3>2. AdmittedOf(log', b, N + 1, now) =
            AdmittedOf(log, b, N, now)
              \cup (IF a = b /\ ok /\ clock + Window > now THEN {N + 1} ELSE {})
      BY <1>1, <3>1, AdmittedGrows DEF ok
    <3> QED BY <1>2, <3>2 DEF now
  <2>4. Kept(b)' = Kept(b) \cup (IF a = b /\ ok /\ Window > 0 THEN {N + 1} ELSE {})
    BY <1>1, KeptSteps DEF ok
  <2> QED BY <2>1, <2>2, <2>3, <2>4
<1>10. HitsAreFew'
  <2> SUFFICES ASSUME NEW b \in Addresses PROVE Cardinality(Kept(b)') <= Limit
    BY <1>2 DEF HitsAreFew
  <2>1. Kept(b)' = Kept(b) \cup (IF a = b /\ ok /\ Window > 0 THEN {N + 1} ELSE {})
    BY <1>1, KeptSteps DEF ok
  <2>2. Cardinality(Kept(b)) <= Limit
    BY DEF LimiterInv, HitsAreFew
  <2>3. CASE a = b /\ ok /\ Window > 0
    <3>1. Kept(b)' = Kept(b) \cup {N + 1} /\ N + 1 \notin Kept(b)
      BY <1>2, <1>5, <2>1, <2>3
    <3>2. Cardinality(Kept(b)') = Cardinality(Kept(b)) + 1
      BY <1>6, <3>1, FS_AddElement
    <3> QED BY <1>2, <1>6, <2>3, <3>2 DEF ok
  <2>4. CASE ~(a = b /\ ok /\ Window > 0)
    BY <2>1, <2>2, <2>4
  <2> QED BY <2>3, <2>4
<1>11. LimiterIsExact'
  <2> SUFFICES ASSUME NEW n \in 1..(N + 1)
               PROVE  LET went == Cardinality(AdmittedOf(log', log'[n].from, n, log'[n].at))
                      IN IF log'[n].ok THEN went <= Limit ELSE went = Limit
    BY <1>2 DEF LimiterIsExact, Admitted, AdmittedOf
  <2>1. CASE n \in 1..N
    <3> DEFINE b == log[n].from
               t == log[n].at
    <3>1. b \in Addresses /\ t \in Nat /\ log'[n] = log[n]
      BY <1>2, <2>1 DEF Requests
    <3>2. LET went == Cardinality(AdmittedOf(log, b, n, t))
          IN IF log[n].ok THEN went <= Limit ELSE went = Limit
      BY <1>2, <2>1 DEF LimiterInv, LimiterIsExact, Admitted, AdmittedOf
    <3> HIDE DEF b, t
    <3>3. AdmittedOf(log', b, n, t) = AdmittedOf(log, b, n, t)
      BY <1>1, <2>1, <3>1, AdmittedGrows
    <3> QED BY <3>1, <3>2, <3>3 DEF b, t
  <2>2. CASE n = N + 1
    <3>1. AdmittedOf(log', a, N + 1, clock) = Kept(a)'
      BY <1>2, <1>9 DEF HitsAreAdmitted, Admitted, AdmittedOf
    <3>2. Cardinality(Kept(a)') <= Limit
      BY <1>2, <1>10 DEF HitsAreFew
    <3>3. CASE ok
      BY <1>2, <1>4, <2>2, <3>1, <3>2, <3>3
    <3>4. CASE ~ok
      <4>1. Kept(a)' = Kept(a)
        BY <1>1, <3>4, KeptSteps DEF ok
      <4>2. Cardinality(Kept(a)) = Limit
        BY <1>2, <1>6, <3>4 DEF ok, LimiterInv, HitsAreFew
      <4> QED BY <1>2, <1>4, <2>2, <3>1, <3>4, <4>1, <4>2
    <3> QED BY <3>3, <3>4
  <2> QED BY <1>2, <2>1, <2>2
<1> QED BY <1>7, <1>8, <1>9, <1>10, <1>11 DEF LimiterInv

(* The inductive invariant of the limiter (router.go, 314-331).             *)
THEOREM LimiterInvariant == LimiterSpec => []LimiterInv
<1>1. LimiterInv /\ [LimiterNext]_limiterVars => LimiterInv'
  <2> SUFFICES ASSUME LimiterInv, [LimiterNext]_limiterVars PROVE LimiterInv'
    OBVIOUS
  <2>1. CASE Tick
    BY <2>1, TickKeepsInv
  <2>2. CASE \E a \in Addresses : Request(a)
    <3>1. PICK a \in Addresses : Allow(a)
      BY <2>2 DEF Request
    <3> QED BY <3>1, AllowKeepsInv
  <2>3. CASE UNCHANGED limiterVars
    BY <2>3 DEF limiterVars, LimiterInv, LimiterTypeOK, PastIsPast,
                HitsAreAdmitted, HitsAreFew, LimiterIsExact, Kept, Admitted
  <2> QED BY <2>1, <2>2, <2>3 DEF LimiterNext
<1> QED BY <1>1, LimiterStarts, PTL DEF LimiterSpec

(* Over every window that ends with a request, no more than Limit requests  *)
(* of one address went in, and a request was refused only when Limit had    *)
(* (the limiter of POST /api/nodes/register).                               *)
THEOREM LimiterExact == LimiterSpec => []LimiterIsExact
<1>1. LimiterInv => LimiterIsExact
  BY DEF LimiterInv
<1> QED BY <1>1, LimiterInvariant, PTL

=============================================================================
