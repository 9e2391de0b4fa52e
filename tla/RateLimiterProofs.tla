-------------------------- MODULE RateLimiterProofs --------------------------
(***************************************************************************)
(* Proofs about the rate limiter of a route, for any number of concurrent  *)
(* requests, any capacity, rate and limit, and any delays and retries that *)
(* DelayAssumption allows.                                                 *)
(***************************************************************************)
EXTENDS RateLimiter, FiniteSetTheorems, TLAPS

(***************************************************************************)
(* Two delays end before what lasts longer than two delays.                *)
(***************************************************************************)
LEMMA TwoDelays ==
  ASSUME NEW read \in Nat, NEW now \in Nat, NEW end \in Nat, NEW delay \in Nat,
         NEW life \in Nat, now <= read + delay, end + delay >= read + life,
         2 * delay < life
  PROVE  now < end
  OBVIOUS

(***************************************************************************)
(* What the parameters are.                                                *)
(***************************************************************************)
LEMMA Parameters ==
  /\ Capacity \in Nat \ {0} /\ Unit \in Nat \ {0} /\ Rate \in Nat \ {0}
  /\ BucketTTL \in Nat \ {0} /\ Limit \in Nat \ {0} /\ Window \in Nat \ {0}
  /\ None \notin Nat /\ None \notin Answers
  BY BucketAssumption, WindowAssumption, AnswerAssumption

USE Parameters

-----------------------------------------------------------------------------
(* The invariant, in parts.                                                *)

(***************************************************************************)
(* No request has waited for its call longer than MaxDelay.                *)
(***************************************************************************)
Timely == \A r \in Pending : stamp[r] <= clock /\ clock <= stamp[r] + MaxDelay

(***************************************************************************)
(* A bucket expires, and not before BucketTTL after the time in it.        *)
(***************************************************************************)
KeyInv ==
  bucket # None => /\ bucket.lastMs \in Nat /\ bucket.expires \in Nat
                   /\ bucket.lastMs <= clock
                   /\ bucket.lastMs + BucketTTL <= bucket.expires

(***************************************************************************)
(* Redis still has the bucket a request took its token from.  The request  *)
(* reads the clock a second time, within MaxDelay of the first.            *)
(***************************************************************************)
TakenInv ==
  \A r \in Calls :
    /\ pc[r] = "next layer" =>
         bucket # None /\ bucket.expires >= stamp[r] + BucketTTL
    /\ pc[r] \in {"window", "give back"} =>
         bucket # None /\ bucket.expires + MaxDelay >= stamp[r] + BucketTTL

(***************************************************************************)
(* The sorted set never outgrows the limit.                                *)
(***************************************************************************)
SmallWindow == IsFiniteSet(entries) /\ Cardinality(entries) <= Limit

Base == TypeOK /\ Timely /\ KeyInv /\ TakenInv /\ SmallWindow

-----------------------------------------------------------------------------
(* Facts about numbers and finite sets.                                    *)

(***************************************************************************)
(* A non-empty set of natural numbers has a least element.                 *)
(***************************************************************************)
LEMMA LeastNatural ==
  ASSUME NEW S \in SUBSET Nat, S # {}
  PROVE  \E m \in S : \A n \in S : m <= n
<1>1. PICK R : IsWellFoundedOn(R, Nat) /\ \A m, n \in Nat : n < m => <<n, m>> \in R
  <2> DEFINE R == {z \in Nat \X Nat : z[1] < z[2]}
  <2>1. IsWellFoundedOn(R, Nat)
    BY NatLessThanWellFounded DEF OpToRel
  <2> QED
    BY <2>1
<1>2. PICK m \in S : \A n \in S : ~(<<n, m>> \in R)
  BY <1>1, WFMin
<1>3. \A n \in S : ~(n < m)
  BY <1>1, <1>2
<1> QED
  BY <1>3

(***************************************************************************)
(* One element makes a finite set larger by one at most.                   *)
(***************************************************************************)
LEMMA OneMore ==
  ASSUME NEW S, IsFiniteSet(S), NEW x
  PROVE  /\ IsFiniteSet(S \cup {x})
         /\ Cardinality(S \cup {x}) \in Nat
         /\ Cardinality(S \cup {x}) <= Cardinality(S) + 1
<1>1. IsFiniteSet(S \cup {x}) /\ Cardinality(S) \in Nat
  BY FS_AddElement, FS_CardinalityType
<1>2. \/ Cardinality(S \cup {x}) = Cardinality(S)
      \/ Cardinality(S \cup {x}) = Cardinality(S) + 1
  BY FS_AddElement
<1> QED
  BY <1>1, <1>2

(***************************************************************************)
(* Multiplication by a natural number distributes and is monotone.         *)
(***************************************************************************)
LEMMA Products ==
  ASSUME NEW k \in Nat, NEW m \in Int, NEW n \in Int
  PROVE  /\ k * m \in Int
         /\ k * (m + n) = k * m + k * n
         /\ k * (m - n) = k * m - k * n
         /\ m <= n => k * m <= k * n
  OBVIOUS

(***************************************************************************)
(* A caller within the delay pays in advance for what it is late: the      *)
(* excess stays within what the bucket lacks of being full.                *)
(***************************************************************************)
LEMMA RefillKeepsExcess ==
  ASSUME NEW excess \in Int, NEW full \in Nat, NEW tokens \in Nat, NEW level \in Nat,
         NEW rate \in Nat, NEW last \in Nat, NEW now \in Nat, NEW then \in Nat,
         NEW delay \in Nat, now <= then, then <= now + delay,
         level <= full, level <= tokens + rate * Larger(0, now - last),
         excess <= 0 \/ excess <= full - tokens - rate * (then - last) + rate * delay
  PROVE  excess - rate * Larger(0, last - now)
           <= full - level - rate * (then - now) + rate * delay
<1>1. PICK a \in Int, b \in Int, c \in Int, d \in Int :
        /\ a = rate * (then - now) /\ b = rate * (then - last)
        /\ c = rate * (now - last) /\ d = rate * delay
  BY Products
<1>2. a <= d
  <2>1. then - now <= delay /\ then - now \in Int
    OBVIOUS
  <2> QED
    BY <1>1, <2>1, Products
<1>3. b = a + c
  <2>1. then - last = (then - now) + (now - last) /\ then - now \in Int /\ now - last \in Int
    OBVIOUS
  <2> QED
    BY <1>1, <2>1, Products
<1>4. CASE now >= last
  <2>1. Larger(0, now - last) = now - last /\ Larger(0, last - now) = 0
    BY <1>4 DEF Larger
  <2>2. level <= tokens + c /\ excess - rate * Larger(0, last - now) = excess
    BY <1>1, <2>1
  <2>3. excess <= 0 \/ excess <= full - tokens - b + d
    BY <1>1
  <2>4. excess <= full - level - a + d
    BY <1>1, <1>2, <1>3, <2>2, <2>3
  <2> QED
    BY <1>1, <2>2, <2>4
<1>5. CASE now < last
  <2>1. Larger(0, now - last) = 0 /\ Larger(0, last - now) = last - now
    BY <1>5 DEF Larger
  <2>2. level <= tokens
    BY <2>1
  <2>3. rate * Larger(0, last - now) = 0 - c /\ 0 - c >= 0
    <3>1. last - now \in Int /\ now - last \in Int /\ now - last = 0 - (last - now)
          /\ 0 <= last - now
      BY <1>5
    <3>2. rate * (last - now) >= 0
      BY <3>1
    <3>3. rate * (now - last) = rate * 0 - rate * (last - now)
      BY <3>1, Products
    <3> QED
      BY <1>1, <2>1, <3>1, <3>2, <3>3
  <2>4. excess <= 0 \/ excess <= full - tokens - b + d
    BY <1>1
  <2>5. excess + c <= full - level - a + d
    BY <1>1, <1>2, <1>3, <2>2, <2>3, <2>4
  <2> QED
    BY <1>1, <2>3, <2>5
<1> QED
  BY <1>4, <1>5

(***************************************************************************)
(* What is refilled in two steps is no less than what is refilled in one.  *)
(***************************************************************************)
LEMMA RefillInSteps ==
  ASSUME NEW rate \in Nat, NEW last \in Nat, NEW now \in Nat, NEW t \in Nat
  PROVE  rate * Larger(0, now - last) + rate * Larger(0, t - now)
           >= rate * Larger(0, t - last)
<1>1. PICK x \in Int, y \in Int, z \in Int :
        /\ x = Larger(0, now - last) /\ y = Larger(0, t - now)
        /\ z = Larger(0, t - last)
  <2>1. \A n \in Int : Larger(0, n) \in Int
    BY DEF Larger
  <2> QED
    BY <2>1
<1>2. z <= x + y
  BY <1>1 DEF Larger
<1>3. rate * z <= rate * x + rate * y /\ rate * x \in Int /\ rate * y \in Int
  <2>1. x + y \in Int
    OBVIOUS
  <2> QED
    BY <1>2, <2>1, Products
<1>4. rate * z \in Int
  BY Products
<1> QED
  BY <1>1, <1>3, <1>4

(***************************************************************************)
(* The delays are numbers, and short.                                      *)
(***************************************************************************)
LEMMA DelayFacts ==
  /\ MaxDelay \in Nat /\ MaxRetries \in Nat /\ BucketTTL \in Nat
  /\ MaxDelay < Window /\ 2 * MaxDelay < BucketTTL
  BY DelayAssumption

(***************************************************************************)
(* Full is a number of shares, and at least one token.                     *)
(***************************************************************************)
LEMMA FullFacts == Full \in Nat /\ Full >= Unit
  BY DEF Full

-----------------------------------------------------------------------------
(* The scripts.                                                            *)

(***************************************************************************)
(* The level is a number of shares, and no more than a full bucket holds.  *)
(***************************************************************************)
LEMMA LevelType ==
  ASSUME BucketTypeOK, NEW now \in Nat, NEW t \in Nat
  PROVE  Level(now, t) \in Nat /\ Level(now, t) <= Full
<1>1. Stored(t) = None \/ Stored(t) = bucket
  BY DEF Stored
<1>2. CASE Stored(t) = None
  BY <1>2, FullFacts DEF Level
<1>3. CASE Stored(t) = bucket /\ bucket # None /\ bucket.lastMs = None
  BY <1>3, FullFacts DEF Level, BucketTypeOK, Smaller
<1>4. CASE Stored(t) = bucket /\ bucket # None /\ bucket.lastMs # None
  <2>1. bucket.tokens \in Nat /\ bucket.lastMs \in Nat
    BY <1>4 DEF BucketTypeOK
  <2>2. Rate * Larger(0, now - bucket.lastMs) \in Nat
    BY <2>1 DEF Larger
  <2> QED
    BY <1>4, <2>1, <2>2, FullFacts DEF Level, Smaller
<1> QED
  BY <1>1, <1>2, <1>3, <1>4

(***************************************************************************)
(* A refused caller is told to wait a number of ticks that refills what is *)
(* missing of a token.                                                     *)
(***************************************************************************)
LEMMA WaitFacts ==
  ASSUME BucketTypeOK, NEW now \in Nat, NEW t \in Nat, ~HasToken(now, t)
  PROVE  /\ WaitMs(now, t) \in Nat
         /\ Level(now, t) + Rate * WaitMs(now, t) >= Unit
<1> DEFINE missing == Unit - Level(now, t) + Rate - 1
<1>1. missing \in Nat /\ missing >= Rate
  <2>1. PICK level \in Nat : level = Level(now, t)
    BY LevelType
  <2>2. level < Unit
    BY <2>1 DEF HasToken
  <2> QED
    BY <2>1, <2>2
<1>2. /\ missing \div Rate \in Nat
      /\ missing = Rate * (missing \div Rate) + (missing % Rate)
      /\ missing % Rate \in 0 .. (Rate - 1)
  BY <1>1
<1> QED
  BY <1>1, <1>2, LevelType DEF WaitMs

(***************************************************************************)
(* The bucket's script writes all fields and an expiry, whatever it says.  *)
(***************************************************************************)
LEMMA BucketScriptFacts ==
  ASSUME BucketTypeOK, NEW now \in Nat, NEW t \in Nat, BucketScript(now, t)
  PROVE  /\ BucketTypeOK'
         /\ bucket' # None
         /\ bucket'.lastMs = now
         /\ bucket'.expires = t + BucketTTL
<1>1. \E n \in Nat : bucket' = [tokens |-> n, lastMs |-> now, expires |-> t + BucketTTL]
  BY LevelType DEF BucketScript, HasToken, BucketExpiry
<1>2. bucket' \in [tokens : Nat, lastMs : Nat \cup {None}, expires : Nat \cup {None}]
  BY <1>1
<1>3. SetBackBy(now, t) \in Nat
  BY DEF SetBackBy, Larger, Stored, BucketTypeOK
<1>4. burst' \in Nat /\ returned' \in Nat /\ setBack' \in Nat
  BY <1>3 DEF BucketScript, BucketTypeOK
<1>5. bucketWaits' \subseteq Nat
  <2>1. ~HasToken(now, t) => now + WaitMs(now, t) \in Nat
    BY WaitFacts
  <2> QED
    BY <2>1 DEF BucketScript, BucketTypeOK
<1> QED
  BY <1>1, <1>2, <1>4, <1>5, BucketAssumption DEF BucketTypeOK

(***************************************************************************)
(* Rollback finds the bucket it took the token from, and then changes the  *)
(* number of its tokens only.                                              *)
(***************************************************************************)
LEMMA RollbackFacts ==
  ASSUME BucketTypeOK, NEW t \in Nat, Stored(t) = bucket, bucket # None,
         HIncrBy(t)
  PROVE  /\ BucketTypeOK'
         /\ bucket' # None
         /\ bucket'.lastMs = bucket.lastMs
         /\ bucket'.expires = bucket.expires
         /\ \/ /\ bucket'.tokens = bucket.tokens + Unit
               /\ returned' = returned + 1
               /\ UNCHANGED <<burst, setBack, bucketWaits>>
            \/ UNCHANGED bucketVars
<1>1. bucket \in [tokens : Nat, lastMs : Nat \cup {None}, expires : Nat \cup {None}]
  BY DEF BucketTypeOK
<1>2. CASE CanReturn(t)
  <2>1. bucket' = [bucket EXCEPT !.tokens = bucket.tokens + Unit]
    BY <1>2 DEF HIncrBy
  <2>2. bucket' \in [tokens : Nat, lastMs : Nat \cup {None}, expires : Nat \cup {None}]
    BY <1>1, <2>1
  <2>3. returned' = returned + 1 /\ UNCHANGED <<burst, setBack, bucketWaits>>
    BY <1>2 DEF HIncrBy
  <2> QED
    BY <1>1, <2>1, <2>2, <2>3, BucketAssumption DEF BucketTypeOK
<1>3. CASE UNCHANGED bucketVars
  BY <1>3 DEF bucketVars, BucketTypeOK
<1> QED
  BY <1>2, <1>3 DEF HIncrBy

(***************************************************************************)
(* What a caller finds in the window is part of the sorted set, finite,    *)
(* and less the later its time and the later the script runs.              *)
(***************************************************************************)
LEMMA RecentFacts ==
  ASSUME WindowTypeOK, SmallWindow, NEW now \in Int, NEW t \in Int
  PROVE  /\ Recent(now, t) \subseteq entries
         /\ IsFiniteSet(Recent(now, t))
         /\ Cardinality(Recent(now, t)) \in Nat
         /\ \A later \in Int, then \in Int :
              now <= later /\ t <= then => Recent(later, then) \subseteq Recent(now, t)
<1>1. Recent(now, t) \subseteq entries
  BY DEF Recent, Members
<1>2. IsFiniteSet(Recent(now, t)) /\ Cardinality(Recent(now, t)) \in Nat
  BY <1>1, FS_Subset, FS_CardinalityType DEF SmallWindow
<1>3. \A later \in Int, then \in Int :
        now <= later /\ t <= then => Recent(later, then) \subseteq Recent(now, t)
  BY DEF Recent, Members, WindowTypeOK
<1> QED
  BY <1>1, <1>2, <1>3

(***************************************************************************)
(* A window that is full has an oldest entry.                              *)
(***************************************************************************)
LEMMA OldestFacts ==
  ASSUME WindowTypeOK, SmallWindow, NEW now \in Nat, NEW t \in Nat,
         ~HasRoom(now, t)
  PROVE  /\ OldestScore(now, t) \in Nat
         /\ OldestScore(now, t) > now - Window
         /\ \E e \in Recent(now, t) : e.score = OldestScore(now, t)
<1> DEFINE R == Recent(now, t)
<1>1. R \subseteq entries /\ IsFiniteSet(R)
  BY RecentFacts
<1>2. R # {}
  BY <1>1, FS_EmptySet DEF HasRoom
<1>3. \A e \in R : e.score \in Nat
  BY <1>1 DEF WindowTypeOK
<1>4. PICK S \in SUBSET Nat : S = {e.score : e \in R}
  BY <1>3
<1>5. \E e \in R : \A f \in R : e.score <= f.score
  <2>1. S # {}
    BY <1>2, <1>4
  <2>2. PICK m \in S : \A n \in S : m <= n
    BY <2>1, LeastNatural
  <2> QED
    BY <1>4, <2>2
<1>6. \E e \in R : e.score = OldestScore(now, t)
  BY <1>5 DEF OldestScore
<1> QED
  BY <1>3, <1>6 DEF Recent

(***************************************************************************)
(* A refused caller is told to come back when the oldest entry has left    *)
(* the window.                                                             *)
(***************************************************************************)
LEMMA WindowWaitFacts ==
  ASSUME WindowTypeOK, SmallWindow, NEW now \in Nat, NEW t \in Nat,
         ~HasRoom(now, t)
  PROVE  /\ now + WindowWaitMs(now, t) \in Nat
         /\ now + WindowWaitMs(now, t) >= OldestScore(now, t) + Window
         /\ now + WindowWaitMs(now, t) >= now
  BY OldestFacts DEF WindowWaitMs

(***************************************************************************)
(* The window's script keeps the set within the limit.                     *)
(***************************************************************************)
LEMMA WindowScriptFacts ==
  ASSUME WindowTypeOK, SmallWindow, NEW r \in Calls, NEW now \in Nat, NEW t \in Nat,
         WindowScript(r, now, t)
  PROVE  WindowTypeOK' /\ SmallWindow'
<1>1. PICK R : R = Recent(now, t)
  OBVIOUS
<1>2. R \subseteq entries /\ IsFiniteSet(R) /\ Cardinality(R) \in Nat
  BY <1>1, RecentFacts
<1>3. R \subseteq [score : Nat, member : Calls]
  BY <1>2 DEF WindowTypeOK
<1>4. CASE HasRoom(now, t)
  <2>1. /\ entries' = R \cup {[score |-> now, member |-> r]}
        /\ windowExpires' = t + Window
        /\ windowWaits' = {}
    BY <1>1, <1>4 DEF WindowScript
  <2>2. WindowTypeOK'
    BY <1>3, <2>1 DEF WindowTypeOK
  <2>3. Cardinality(R) < Limit
    BY <1>1, <1>4 DEF HasRoom
  <2>4. SmallWindow'
    <3>1. /\ IsFiniteSet(entries') /\ Cardinality(entries') \in Nat
          /\ Cardinality(entries') <= Cardinality(R) + 1
      BY <1>2, <2>1, OneMore
    <3> QED
      BY <1>2, <2>3, <3>1 DEF SmallWindow
  <2> QED
    BY <2>2, <2>4
<1>5. CASE ~HasRoom(now, t)
  <2>1. /\ entries' = R
        /\ windowExpires' = windowExpires
        /\ windowWaits' = windowWaits \cup {now + WindowWaitMs(now, t)}
    BY <1>1, <1>5 DEF WindowScript
  <2>2. now + WindowWaitMs(now, t) \in Nat
    BY <1>5, WindowWaitFacts
  <2>3. WindowTypeOK'
    BY <1>3, <2>1, <2>2 DEF WindowTypeOK
  <2>4. Cardinality(R) <= Cardinality(entries) /\ Cardinality(entries) \in Nat
    BY <1>2, FS_Subset, FS_CardinalityType DEF SmallWindow
  <2>5. SmallWindow'
    BY <1>2, <2>1, <2>4 DEF SmallWindow
  <2> QED
    BY <2>3, <2>5
<1> QED
  BY <1>4, <1>5

-----------------------------------------------------------------------------
(* Types and timeliness.                                                   *)

(***************************************************************************)
(* Initially there is neither bucket nor window, and no request waits.     *)
(***************************************************************************)
LEMMA InitBase == Init => Base
<1> SUFFICES ASSUME Init PROVE Base
  OBVIOUS
<1>1. TypeOK
  BY DelayFacts
  DEF Init, InitBucket, InitWindow, TypeOK, BucketTypeOK, WindowTypeOK
<1>2. Timely /\ KeyInv /\ TakenInv
  BY DEF Init, InitBucket, Timely, Pending, KeyInv, TakenInv
<1>3. SmallWindow
  BY FS_EmptySet DEF Init, InitWindow, SmallWindow
<1> QED
  BY <1>1, <1>2, <1>3 DEF Base

(***************************************************************************)
(* A pending request has read the clock, at most MaxDelay ago.             *)
(***************************************************************************)
LEMMA PendingFacts ==
  ASSUME Base, NEW r \in Calls, pc[r] \notin {"idle", "done"}
  PROVE  /\ clock \in Nat /\ stamp[r] \in Nat /\ MaxDelay \in Nat
         /\ stamp[r] <= clock
         /\ clock <= stamp[r] + MaxDelay
  BY DelayFacts DEF Base, TypeOK, Timely, Pending

(***************************************************************************)
(* Where a request goes next, and how often it may repeat its call.        *)
(***************************************************************************)
LEMMA GotoTries ==
  ASSUME tries \in [Calls -> 0 .. MaxRetries], NEW r \in Calls,
         (\E label : Goto(r, label)) \/ Repeat(r)
  PROVE  tries' \in [Calls -> 0 .. MaxRetries]
<1>1. CASE Repeat(r)
  <2>1. tries[r] + 1 \in 0 .. MaxRetries
    BY <1>1, DelayFacts DEF Repeat
  <2> QED
    BY <1>1, <2>1 DEF Repeat
<1>2. CASE \E label : Goto(r, label)
  <2>1. 0 \in 0 .. MaxRetries
    BY DelayFacts
  <2> QED
    BY <1>2, <2>1 DEF Goto
<1> QED
  BY <1>1, <1>2

(***************************************************************************)
(* Reading the clock starts a call.                                        *)
(***************************************************************************)
LEMMA ReadClockBase ==
  ASSUME Base, NEW r \in Calls, ReadClock(r)
  PROVE  Base'
<1>1. /\ BucketTypeOK' /\ KeyInv' /\ WindowTypeOK' /\ SmallWindow'
      /\ UNCHANGED <<clock, bucket>>
  BY DEF ReadClock, bucketVars, windowVars, Base, TypeOK, BucketTypeOK, KeyInv,
         WindowTypeOK, SmallWindow
<1>2. /\ clock \in Nat /\ stamp'[r] = clock
      /\ \/ pc[r] = "idle" /\ pc'[r] = "bucket"
         \/ pc[r] = "next layer" /\ pc'[r] = "window"
      /\ \A q \in Calls : q # r => pc'[q] = pc[q] /\ stamp'[q] = stamp[q]
  BY DEF ReadClock, Goto, Base, TypeOK
<1>3. tries' \in [Calls -> 0 .. MaxRetries]
  BY DelayFacts, GotoTries DEF ReadClock, Base, TypeOK
<1>4. TypeOK'
  BY <1>1, <1>3 DEF ReadClock, Goto, Base, TypeOK
<1>5. Timely'
  <2> SUFFICES ASSUME NEW q \in Calls, pc'[q] \notin {"idle", "done"}
               PROVE  stamp'[q] <= clock /\ clock <= stamp'[q] + MaxDelay
    BY <1>1 DEF Timely, Pending
  <2>1. CASE q # r
    BY <1>2, <2>1, PendingFacts
  <2>2. CASE q = r
    <3>1. stamp'[q] = clock /\ clock \in Nat
      BY <1>2, <2>2
    <3> QED
      BY <3>1, DelayFacts
  <2> QED
    BY <2>1, <2>2
<1>6. TakenInv'
  <2> SUFFICES ASSUME NEW q \in Calls
               PROVE  /\ pc'[q] = "next layer" =>
                           bucket # None /\ bucket.expires >= stamp'[q] + BucketTTL
                      /\ pc'[q] \in {"window", "give back"} =>
                           /\ bucket # None
                           /\ bucket.expires + MaxDelay >= stamp'[q] + BucketTTL
    BY <1>1 DEF TakenInv
  <2>1. CASE q # r
    BY <1>2, <2>1 DEF Base, TakenInv
  <2>2. CASE q = r /\ pc[r] = "next layer"
    <3>1. bucket # None /\ bucket.expires >= stamp[r] + BucketTTL /\ bucket.expires \in Nat
      BY <2>2 DEF Base, TakenInv, KeyInv
    <3>2. clock <= stamp[r] + MaxDelay /\ stamp[r] \in Nat /\ MaxDelay \in Nat
      BY <2>2, PendingFacts
    <3>3. PICK e \in Nat : e = bucket.expires
      BY <3>1
    <3>4. e + MaxDelay >= clock + BucketTTL
      <4>1. clock \in Nat /\ e >= stamp[r] + BucketTTL
        BY <1>2, <3>1, <3>3
      <4> QED
        BY <3>2, <4>1, DelayFacts
    <3> QED
      BY <1>2, <2>2, <3>1, <3>3, <3>4
  <2>3. CASE q = r /\ pc[r] = "idle"
    BY <1>2, <2>3
  <2> QED
    BY <1>2, <2>1, <2>2, <2>3
<1> QED
  BY <1>1, <1>4, <1>5, <1>6 DEF Base

(***************************************************************************)
(* The bucket's script makes the bucket last longer.                       *)
(***************************************************************************)
LEMMA CallBucketBase ==
  ASSUME Base, NEW r \in Calls, CallBucket(r)
  PROVE  Base'
<1>1. /\ pc[r] = "bucket" /\ clock \in Nat /\ stamp[r] \in Nat /\ stamp[r] <= clock
      /\ BucketTypeOK /\ WindowTypeOK
  BY PendingFacts DEF CallBucket, Base, TypeOK
<1>2. /\ UNCHANGED <<clock, windowVars, stamp>>
      /\ \A q \in Calls : q # r => pc'[q] = pc[q]
      /\ pc'[r] \in {"bucket", "next layer", "done"}
      /\ pc'[r] = "next layer" => BucketScript(stamp[r], clock)
      /\ BucketScript(stamp[r], clock) \/ UNCHANGED bucketVars
  BY DEF CallBucket, Decide, Goto, Base, TypeOK
<1>3. ASSUME BucketScript(stamp[r], clock)
      PROVE  BucketTypeOK' /\ KeyInv' /\ TakenInv'
  <2>1. BucketTypeOK' /\ bucket' # None /\ bucket'.lastMs = stamp[r]
        /\ bucket'.expires = clock + BucketTTL
    BY <1>1, <1>3, BucketScriptFacts
  <2>2. PICK e \in Nat, s \in Nat :
          /\ e = bucket'.expires /\ s = bucket'.lastMs
          /\ s = stamp[r] /\ e = clock + BucketTTL
    BY <1>1, <2>1, DelayFacts
  <2>3. KeyInv'
    <3>1. clock' = clock
      BY <1>2
    <3> QED
      BY <1>1, <2>2, <3>1, DelayFacts DEF KeyInv
  <2>4. ASSUME NEW q \in Calls, pc'[q] \in {"next layer", "window", "give back"}
        PROVE  /\ stamp'[q] = stamp[q] /\ bucket' # None
               /\ bucket'.expires >= stamp[q] + BucketTTL
               /\ bucket'.expires + MaxDelay >= stamp[q] + BucketTTL
    <3>1. pc[q] \notin {"idle", "done"} /\ stamp'[q] = stamp[q]
      BY <1>1, <1>2, <2>4
    <3>2. stamp[q] <= clock /\ stamp[q] \in Nat
      BY <3>1, PendingFacts
    <3>3. e >= stamp[q] + BucketTTL /\ e + MaxDelay >= stamp[q] + BucketTTL
      BY <1>1, <2>2, <3>2, DelayFacts
    <3> QED
      BY <2>1, <2>2, <3>1, <3>3
  <2>5. TakenInv'
    BY <2>4 DEF TakenInv
  <2> QED
    BY <2>1, <2>3, <2>5
<1>4. ASSUME UNCHANGED bucketVars, pc'[r] # "next layer"
      PROVE  BucketTypeOK' /\ KeyInv' /\ TakenInv'
  <2>1. BucketTypeOK' /\ KeyInv'
    BY <1>1, <1>2, <1>4 DEF bucketVars, BucketTypeOK, Base, KeyInv
  <2>2. TakenInv'
    BY <1>1, <1>2, <1>4 DEF bucketVars, Base, TakenInv
  <2> QED
    BY <2>1, <2>2
<1>5. BucketTypeOK' /\ KeyInv' /\ TakenInv'
  BY <1>2, <1>3, <1>4
<1>6. WindowTypeOK' /\ SmallWindow'
  BY <1>2 DEF windowVars, WindowTypeOK, SmallWindow, Base, TypeOK
<1>7. TypeOK'
  <2>1. tries' \in [Calls -> 0 .. MaxRetries] /\ faulted' \subseteq Calls
    <3>1. (\E label : Goto(r, label)) \/ Repeat(r)
      BY DEF CallBucket, Decide
    <3>2. tries' \in [Calls -> 0 .. MaxRetries]
      BY <3>1, GotoTries DEF Base, TypeOK
    <3> QED
      BY <3>2 DEF CallBucket, Repeat, Fault, Base, TypeOK
  <2>2. answer' \in [Calls -> Answers \cup {None}]
    BY DEF CallBucket, Decide, Answers, Base, TypeOK
  <2> QED
    BY <1>5, <1>6, <2>1, <2>2 DEF CallBucket, Decide, Goto, Base, TypeOK
<1>8. Timely'
  BY <1>1, <1>2 DEF Base, Timely, Pending
<1> QED
  BY <1>5, <1>6, <1>7, <1>8 DEF Base

(***************************************************************************)
(* The window's script leaves the bucket alone.                            *)
(***************************************************************************)
LEMMA CallWindowBase ==
  ASSUME Base, NEW r \in Calls, CallWindow(r)
  PROVE  Base'
<1>1. /\ pc[r] = "window" /\ clock \in Nat /\ stamp[r] \in Nat
      /\ WindowTypeOK /\ SmallWindow
  BY PendingFacts DEF CallWindow, Base, TypeOK
<1>2. /\ UNCHANGED <<clock, bucketVars, stamp>>
      /\ \A q \in Calls : q # r => pc'[q] = pc[q]
      /\ pc'[r] \in {"window", "give back", "done"}
      /\ WindowScript(r, stamp[r], clock) \/ UNCHANGED windowVars
  BY DEF CallWindow, Decide, Goto, Base, TypeOK
<1>3. BucketTypeOK' /\ KeyInv'
  BY <1>2 DEF bucketVars, BucketTypeOK, KeyInv, Base, TypeOK
<1>4. WindowTypeOK' /\ SmallWindow'
  <2>1. CASE WindowScript(r, stamp[r], clock)
    BY <1>1, <2>1, WindowScriptFacts
  <2>2. CASE UNCHANGED windowVars
    BY <1>1, <2>2 DEF windowVars, WindowTypeOK, SmallWindow
  <2> QED
    BY <1>2, <2>1, <2>2
<1>5. TakenInv'
  BY <1>1, <1>2 DEF bucketVars, Base, TakenInv
<1>6. TypeOK'
  <2>1. (\E label : Goto(r, label)) \/ Repeat(r)
    BY DEF CallWindow, Decide
  <2>2. tries' \in [Calls -> 0 .. MaxRetries]
    BY <2>1, GotoTries DEF Base, TypeOK
  <2>3. answer' \in [Calls -> Answers \cup {None}]
    BY DEF CallWindow, Decide, Answers, Base, TypeOK
  <2>4. admittedAt' \in [Calls -> Nat \cup {None}]
    BY <1>1 DEF CallWindow, Base, TypeOK
  <2>5. faulted' \subseteq Calls /\ refunded' \subseteq Calls
    BY DEF CallWindow, Repeat, Fault, Base, TypeOK
  <2>6. pc' \in [Calls -> {"idle", "bucket", "next layer", "window", "give back", "done"}]
    BY DEF CallWindow, Decide, Goto, Base, TypeOK
  <2>7. clock' \in Nat /\ stamp' \in [Calls -> Nat]
    BY <1>2 DEF Base, TypeOK
  <2> QED
    BY <1>3, <1>4, <2>2, <2>3, <2>4, <2>5, <2>6, <2>7 DEF TypeOK
<1>7. Timely'
  BY <1>1, <1>2 DEF Base, Timely, Pending
<1> QED
  BY <1>3, <1>4, <1>5, <1>6, <1>7 DEF Base

(***************************************************************************)
(* A token is given back to the bucket it was taken from: within two       *)
(* delays the bucket cannot have been forgotten.                           *)
(***************************************************************************)
LEMMA GiveBackFindsBucket ==
  ASSUME Base, NEW r \in Calls, GiveBack(r)
  PROVE  Stored(clock) = bucket /\ bucket # None
<1>1. /\ clock \in Nat /\ stamp[r] \in Nat /\ clock <= stamp[r] + MaxDelay
  BY PendingFacts DEF GiveBack
<1>2. /\ bucket # None /\ bucket.expires \in Nat
      /\ bucket.expires + MaxDelay >= stamp[r] + BucketTTL
  BY DEF Base, TakenInv, KeyInv, GiveBack
<1>3. PICK end \in Nat, read \in Nat : end = bucket.expires /\ read = stamp[r]
  BY <1>1, <1>2
<1>4. clock \in Nat /\ end \in Nat /\ clock <= read + MaxDelay /\ end + MaxDelay >= read + BucketTTL
  BY <1>1, <1>2, <1>3
<1>5. clock < end
  BY <1>3, <1>4, DelayFacts, TwoDelays
<1>6. ~(clock >= end)
  BY <1>4, <1>5
<1> QED
  BY <1>2, <1>3, <1>6 DEF Stored

(***************************************************************************)
(* Giving a token back changes neither the time of the bucket nor its      *)
(* expiry.                                                                 *)
(***************************************************************************)
LEMMA GiveBackBase ==
  ASSUME Base, NEW r \in Calls, GiveBack(r)
  PROVE  Base'
<1>1. /\ pc[r] = "give back" /\ clock \in Nat
      /\ BucketTypeOK /\ Stored(clock) = bucket /\ bucket # None
  BY GiveBackFindsBucket DEF GiveBack, Base, TypeOK
<1>2. /\ UNCHANGED <<clock, windowVars, stamp, answer, admittedAt>>
      /\ \A q \in Calls : q # r => pc'[q] = pc[q]
      /\ pc'[r] \in {"give back", "done"}
      /\ HIncrBy(clock) \/ UNCHANGED bucketVars
  BY DEF GiveBack, Goto, Base, TypeOK
<1>3. /\ BucketTypeOK' /\ bucket' # None
      /\ bucket'.lastMs = bucket.lastMs /\ bucket'.expires = bucket.expires
  <2>1. CASE HIncrBy(clock)
    BY <1>1, <2>1, RollbackFacts
  <2>2. CASE UNCHANGED bucketVars
    BY <1>1, <2>2 DEF bucketVars, BucketTypeOK
  <2> QED
    BY <1>2, <2>1, <2>2
<1>4. KeyInv'
  BY <1>1, <1>2, <1>3 DEF Base, KeyInv
<1>5. TakenInv'
  BY <1>1, <1>2, <1>3 DEF Base, TakenInv
<1>6. WindowTypeOK' /\ SmallWindow'
  BY <1>2 DEF windowVars, WindowTypeOK, SmallWindow, Base, TypeOK
<1>7. TypeOK'
  <2>1. (\E label : Goto(r, label)) \/ Repeat(r)
    BY DEF GiveBack
  <2>2. tries' \in [Calls -> 0 .. MaxRetries]
    BY <2>1, GotoTries DEF Base, TypeOK
  <2>3. faulted' \subseteq Calls /\ refunded' \subseteq Calls
    BY DEF GiveBack, Repeat, Fault, Base, TypeOK
  <2>4. pc' \in [Calls -> {"idle", "bucket", "next layer", "window", "give back", "done"}]
    BY DEF GiveBack, Goto, Base, TypeOK
  <2> QED
    BY <1>2, <1>3, <1>6, <2>2, <2>3, <2>4 DEF Base, TypeOK
<1>8. Timely'
  BY <1>1, <1>2 DEF Base, Timely, Pending
<1> QED
  BY <1>4, <1>5, <1>6, <1>7, <1>8 DEF Base

(***************************************************************************)
(* Time passes only as long as no call is overdue.                         *)
(***************************************************************************)
LEMMA TickBase ==
  ASSUME Base, Tick
  PROVE  Base'
<1>1. /\ clock \in Nat /\ clock' = clock + 1
      /\ UNCHANGED <<bucket, returned, setBack, bucketWaits, windowVars, requestVars>>
  BY DEF Tick, Base, TypeOK
<1>2. TypeOK'
  <2>1. burst \in Nat /\ burst' = Larger(0, burst - Rate)
    BY DEF Tick, Drain, Base, TypeOK, BucketTypeOK
  <2>2. burst' \in Nat
    BY <2>1 DEF Larger
  <2>3. BucketTypeOK'
    BY <1>1, <2>2 DEF Base, TypeOK, BucketTypeOK
  <2>4. WindowTypeOK'
    BY <1>1 DEF Base, TypeOK, WindowTypeOK, windowVars
  <2>5. clock' \in Nat
    BY <1>1
  <2> QED
    BY <1>1, <2>3, <2>4, <2>5 DEF Base, TypeOK, requestVars
<1>3. Timely'
  <2> SUFFICES ASSUME NEW q \in Calls, pc[q] \notin {"idle", "done"}
               PROVE  stamp[q] <= clock + 1 /\ clock + 1 <= stamp[q] + MaxDelay
    BY <1>1 DEF Timely, Pending, requestVars
  <2>1. stamp[q] <= clock /\ stamp[q] \in Nat
    BY PendingFacts
  <2>2. clock - stamp[q] < MaxDelay
    BY DEF Tick, Pending
  <2> QED
    BY <1>1, <2>1, <2>2, DelayFacts
<1>4. KeyInv'
  BY <1>1 DEF Base, KeyInv
<1>5. TakenInv' /\ SmallWindow'
  BY <1>1 DEF Base, TakenInv, SmallWindow, requestVars, windowVars
<1> QED
  BY <1>2, <1>3, <1>4, <1>5 DEF Base

(***************************************************************************)
(* No step of the limiter leaves the basic invariant.                      *)
(***************************************************************************)
LEMMA NextBase == Base /\ [Next]_vars => Base'
<1> SUFFICES ASSUME Base, [Next]_vars PROVE Base'
  OBVIOUS
<1>1. ASSUME NEW r \in Calls, ReadClock(r) PROVE Base'
  BY <1>1, ReadClockBase
<1>2. ASSUME NEW r \in Calls, CallBucket(r) PROVE Base'
  BY <1>2, CallBucketBase
<1>3. ASSUME NEW r \in Calls, CallWindow(r) PROVE Base'
  BY <1>3, CallWindowBase
<1>4. ASSUME NEW r \in Calls, GiveBack(r) PROVE Base'
  BY <1>4, GiveBackBase
<1>5. CASE Tick
  BY <1>5, TickBase
<1>6. CASE UNCHANGED vars
  <2>1. TypeOK'
    BY <1>6 DEF vars, bucketVars, windowVars, requestVars, Base, TypeOK,
                BucketTypeOK, WindowTypeOK
  <2>2. Timely' /\ KeyInv' /\ TakenInv' /\ SmallWindow'
    BY <1>6 DEF vars, bucketVars, windowVars, requestVars, Base, Timely, Pending,
                KeyInv, TakenInv, SmallWindow
  <2> QED
    BY <2>1, <2>2 DEF Base
<1> QED
  BY <1>1, <1>2, <1>3, <1>4, <1>5, <1>6 DEF Next, Rest

(***************************************************************************)
(* The types, the delays, the expiry of the bucket and the size of the     *)
(* window hold in every state.                                             *)
(***************************************************************************)
LEMMA BaseHolds == Spec => []Base
  BY InitBase, NextBase, PTL DEF Spec

(***************************************************************************)
(* The variables keep their types.                                         *)
(***************************************************************************)
THEOREM TypeCorrect == Spec => []TypeOK
<1>1. Base => TypeOK
  BY DEF Base
<1> QED
  BY <1>1, BaseHolds, PTL

(***************************************************************************)
(* Every bucket expires: Rollback always finds the bucket its request took *)
(* the token from, so it never makes a key that would stay for good with a *)
(* single token and no time in it.                                         *)
(***************************************************************************)
THEOREM BucketAlwaysExpires == Spec => []BucketExpires
<1>1. Base => BucketExpires
  BY DEF Base, KeyInv, BucketExpires
<1> QED
  BY <1>1, BaseHolds, PTL

-----------------------------------------------------------------------------
(* The sliding window.                                                     *)

(***************************************************************************)
(* A request was admitted within MaxDelay of its time, and is in the       *)
(* sorted set, which lives as long, until its time leaves the window.      *)
(***************************************************************************)
IsKept(q) ==
  /\ pc[q] = "done"
  /\ stamp[q] <= admittedAt[q]
  /\ admittedAt[q] <= stamp[q] + MaxDelay
  /\ admittedAt[q] <= clock
  /\ stamp[q] + Window > clock =>
       /\ [score |-> stamp[q], member |-> q] \in entries
       /\ windowExpires >= admittedAt[q] + Window

AdmittedInv == \A q \in Calls : admittedAt[q] # None => IsKept(q)

(***************************************************************************)
(* The requests that passed lately, at the time t.                         *)
(***************************************************************************)
Lately(t) ==
  {q \in Calls : /\ admittedAt[q] # None
                 /\ admittedAt[q] <= t
                 /\ admittedAt[q] > t - (Window - MaxDelay)}

(***************************************************************************)
(* A smaller window has room too.                                          *)
(***************************************************************************)
LEMMA RoomIsMonotone ==
  ASSUME NEW R, NEW S, R \subseteq S, IsFiniteSet(S)
  PROVE  /\ IsFiniteSet(R) /\ Cardinality(R) \in Nat /\ Cardinality(S) \in Nat
         /\ Cardinality(R) <= Cardinality(S)
  BY FS_Subset, FS_CardinalityType

(***************************************************************************)
(* The window's script removes nothing that is recent for its caller, nor  *)
(* shortens the life of the key.                                           *)
(***************************************************************************)
LEMMA ScriptKeepsRecent ==
  ASSUME NEW r, NEW now, NEW t, WindowScript(r, now, t)
  PROVE  /\ Recent(now, t) \subseteq entries'
         /\ windowExpires' = t + Window \/ windowExpires' = windowExpires
         /\ entries' \subseteq entries \cup {[score |-> now, member |-> r]}
  BY DEF WindowScript, Recent, Members

(***************************************************************************)
(* An admitted request is recent for every later caller who is not late by *)
(* more than the clock.                                                    *)
(***************************************************************************)
LEMMA KeptIsRecent ==
  ASSUME Base, NEW q \in Calls, admittedAt[q] # None, IsKept(q),
         stamp[q] + Window > clock, NEW now \in Nat, now <= clock
  PROVE  [score |-> stamp[q], member |-> q] \in Recent(now, clock)
<1>1. /\ stamp[q] \in Nat /\ clock \in Nat /\ admittedAt[q] \in Nat
      /\ windowExpires \in Nat
  BY DEF Base, TypeOK, WindowTypeOK
<1>2. PICK s \in Nat, a \in Nat : s = stamp[q] /\ a = admittedAt[q]
  BY <1>1
<1>3. /\ s <= a /\ [score |-> s, member |-> q] \in entries
      /\ windowExpires >= a + Window
  BY <1>2 DEF IsKept
<1>4. ~(clock >= windowExpires)
  BY <1>1, <1>2, <1>3
<1>5. s > now - Window
  BY <1>1, <1>2
<1> QED
  BY <1>2, <1>3, <1>4, <1>5 DEF Recent, Members

(***************************************************************************)
(* Whenever the window has room, fewer than Limit requests passed lately.  *)
(***************************************************************************)
LEMMA LatelyFewer ==
  ASSUME Base, AdmittedInv, NEW now \in Nat, now <= clock, HasRoom(now, clock)
  PROVE  /\ IsFiniteSet(Lately(clock))
         /\ Cardinality(Lately(clock)) \in Nat
         /\ Cardinality(Lately(clock)) < Limit
<1>1. PICK T, R : T = Lately(clock) /\ R = Recent(now, clock)
  OBVIOUS
<1>2. IsFiniteSet(R) /\ Cardinality(R) \in Nat /\ Cardinality(R) < Limit
  <2>1. clock \in Nat /\ WindowTypeOK /\ SmallWindow
    BY DEF Base, TypeOK
  <2>2. clock \in Int /\ now \in Int
    BY <2>1
  <2> QED
    BY <1>1, <2>1, <2>2, RecentFacts DEF HasRoom
<1>3. ASSUME NEW q \in T
      PROVE  q \in Calls /\ [score |-> stamp[q], member |-> q] \in R
  <2>1. q \in Calls /\ admittedAt[q] # None /\ admittedAt[q] > clock - (Window - MaxDelay)
    BY <1>1, <1>3 DEF Lately
  <2>2. IsKept(q) /\ stamp[q] \in Nat /\ clock \in Nat /\ admittedAt[q] \in Nat
    BY <2>1 DEF AdmittedInv, Base, TypeOK
  <2>3. admittedAt[q] <= stamp[q] + MaxDelay
    BY <2>2 DEF IsKept
  <2>4. stamp[q] + Window > clock
    BY <2>1, <2>2, <2>3, DelayFacts
  <2> QED
    BY <1>1, <2>1, <2>2, <2>4, KeptIsRecent
<1>4. PICK f : f = [q \in T |-> [score |-> stamp[q], member |-> q]]
  OBVIOUS
<1>5. f \in Injection(T, R)
  <2>1. f \in [T -> R]
    BY <1>3, <1>4
  <2>2. \A p, q \in T : f[p] = f[q] => p = q
    BY <1>4
  <2> QED
    BY <2>1, <2>2 DEF Injection, IsInjective
<1>6. IsFiniteSet(T) /\ Cardinality(T) <= Cardinality(R)
  BY <1>2, <1>5, FS_Injection
<1>7. Cardinality(T) \in Nat
  BY <1>6, FS_CardinalityType
<1> QED
  BY <1>1, <1>2, <1>6, <1>7

(***************************************************************************)
(* Only the window's call changes the sorted set or admits a request.      *)
(***************************************************************************)
LEMMA OthersLeaveWindow ==
  ASSUME Base, [Next]_vars, \A r \in Calls : ~CallWindow(r)
  PROVE  /\ UNCHANGED <<windowVars, admittedAt>>
         /\ clock' = clock \/ Tick
         /\ \A q \in Calls : pc[q] = "done" => pc'[q] = "done" /\ stamp'[q] = stamp[q]
<1>1. ASSUME NEW r \in Calls, ReadClock(r) \/ CallBucket(r) \/ GiveBack(r)
      PROVE  /\ UNCHANGED <<windowVars, admittedAt, clock>>
             /\ \A q \in Calls : pc[q] = "done" => pc'[q] = "done" /\ stamp'[q] = stamp[q]
  BY <1>1 DEF ReadClock, CallBucket, GiveBack, Goto, Decide, Base, TypeOK
<1>2. CASE Tick
  BY <1>2 DEF Tick, requestVars
<1>3. CASE UNCHANGED vars
  BY <1>3 DEF vars, requestVars
<1> QED
  BY <1>1, <1>2, <1>3 DEF Next, Rest

(***************************************************************************)
(* What the window's call does to the sorted set and to the admitted.      *)
(***************************************************************************)
LEMMA CallWindowFacts ==
  ASSUME Base, AdmittedInv, NEW r \in Calls, CallWindow(r)
  PROVE  /\ clock \in Nat /\ stamp[r] \in Nat /\ stamp[r] <= clock
         /\ clock <= stamp[r] + MaxDelay
         /\ UNCHANGED <<clock, stamp>>
         /\ \A q \in Calls : q # r => pc'[q] = pc[q] /\ admittedAt'[q] = admittedAt[q]
         /\ admittedAt[r] = None
         /\ WindowScript(r, stamp[r], clock) \/ UNCHANGED windowVars
         /\ \/ admittedAt' = admittedAt
            \/ /\ WindowScript(r, stamp[r], clock) /\ HasRoom(stamp[r], clock)
               /\ admittedAt'[r] = clock /\ pc'[r] = "done"
<1>1. /\ clock \in Nat /\ stamp[r] \in Nat /\ stamp[r] <= clock
      /\ clock <= stamp[r] + MaxDelay
  BY PendingFacts DEF CallWindow
<1>2. admittedAt[r] = None
  BY DEF CallWindow, AdmittedInv, IsKept
<1>3. UNCHANGED <<clock, stamp>>
  BY DEF CallWindow
<1>4. \A q \in Calls : q # r => pc'[q] = pc[q] /\ admittedAt'[q] = admittedAt[q]
  BY DEF CallWindow, Decide, Goto, Base, TypeOK
<1>5. /\ WindowScript(r, stamp[r], clock) \/ UNCHANGED windowVars
      /\ \/ admittedAt' = admittedAt
         \/ /\ WindowScript(r, stamp[r], clock) /\ HasRoom(stamp[r], clock)
            /\ admittedAt'[r] = clock /\ pc'[r] = "done"
  BY DEF CallWindow, Decide, Goto, Base, TypeOK
<1> QED
  BY <1>1, <1>2, <1>3, <1>4, <1>5

(***************************************************************************)
(* The sorted set keeps what the window promises to count.                 *)
(***************************************************************************)
LEMMA NextAdmitted ==
  ASSUME Base, AdmittedInv, [Next]_vars
  PROVE  AdmittedInv'
<1> SUFFICES ASSUME NEW q \in Calls, admittedAt'[q] # None
             PROVE  IsKept(q)'
  BY DEF AdmittedInv
<1>1. clock \in Nat /\ stamp[q] \in Nat /\ windowExpires \in Nat
      /\ (admittedAt[q] # None => admittedAt[q] \in Nat)
  BY DEF Base, TypeOK, WindowTypeOK
<1>2. CASE \A r \in Calls : ~CallWindow(r)
  <2>1. /\ UNCHANGED <<windowVars, admittedAt>>
        /\ clock' = clock \/ Tick
        /\ pc[q] = "done" => pc'[q] = "done" /\ stamp'[q] = stamp[q]
    BY <1>2, OthersLeaveWindow
  <2>2. admittedAt[q] # None /\ IsKept(q)
    BY <2>1 DEF AdmittedInv
  <2>3. clock' = clock \/ clock' = clock + 1
    BY <2>1 DEF Tick
  <2>4. stamp'[q] = stamp[q] /\ pc'[q] = "done"
    BY <2>1, <2>2 DEF IsKept
  <2> QED
    BY <1>1, <2>1, <2>2, <2>3, <2>4 DEF IsKept, windowVars
<1>3. ASSUME NEW r \in Calls, CallWindow(r)
      PROVE  IsKept(q)'
  <2>1. /\ clock \in Nat /\ stamp[r] \in Nat /\ stamp[r] <= clock
        /\ clock <= stamp[r] + MaxDelay
        /\ UNCHANGED <<clock, stamp>>
        /\ q # r => pc'[q] = pc[q] /\ admittedAt'[q] = admittedAt[q]
        /\ admittedAt[r] = None
        /\ WindowScript(r, stamp[r], clock) \/ UNCHANGED windowVars
        /\ \/ admittedAt' = admittedAt
           \/ /\ WindowScript(r, stamp[r], clock) /\ HasRoom(stamp[r], clock)
              /\ admittedAt'[r] = clock /\ pc'[r] = "done"
    BY <1>3, CallWindowFacts
  <2>2. CASE q # r
    <3>1. admittedAt[q] # None /\ IsKept(q) /\ pc'[q] = pc[q] /\ admittedAt'[q] = admittedAt[q]
      BY <2>1, <2>2 DEF AdmittedInv
    <3>2. ASSUME stamp[q] + Window > clock
          PROVE  /\ [score |-> stamp[q], member |-> q] \in entries'
                 /\ windowExpires' >= admittedAt[q] + Window
      <4>1. [score |-> stamp[q], member |-> q] \in Recent(stamp[r], clock)
        BY <2>1, <3>1, <3>2, KeptIsRecent
      <4>2. CASE WindowScript(r, stamp[r], clock)
        <5>1. [score |-> stamp[q], member |-> q] \in entries'
          BY <4>1, <4>2, ScriptKeepsRecent
        <5>2. windowExpires' = clock + Window \/ windowExpires' = windowExpires
          BY <4>2, ScriptKeepsRecent
        <5>3. windowExpires >= admittedAt[q] + Window /\ admittedAt[q] <= clock
          BY <3>1, <3>2 DEF IsKept
        <5> QED
          BY <1>1, <3>1, <5>1, <5>2, <5>3
      <4>3. CASE UNCHANGED windowVars
        BY <3>1, <3>2, <4>3 DEF windowVars, IsKept
      <4> QED
        BY <2>1, <4>2, <4>3
    <3> QED
      BY <2>1, <3>1, <3>2 DEF IsKept
  <2>3. CASE q = r
    <3>1. /\ WindowScript(r, stamp[r], clock) /\ HasRoom(stamp[r], clock)
          /\ admittedAt'[r] = clock /\ pc'[r] = "done"
      BY <2>1, <2>3
    <3>2. /\ [score |-> stamp[r], member |-> r] \in entries'
          /\ windowExpires' = clock + Window
      BY <3>1 DEF WindowScript
    <3> QED
      BY <2>1, <2>3, <3>1, <3>2 DEF IsKept
  <2> QED
    BY <2>2, <2>3
<1> QED
  BY <1>2, <1>3

(***************************************************************************)
(* A step that admits nobody changes nothing of what passed; one that      *)
(* admits a request found room for it.                                     *)
(***************************************************************************)
LEMMA NextAtMostLimit ==
  ASSUME Base, AdmittedInv, AtMostLimitPerWindow, [Next]_vars
  PROVE  AtMostLimitPerWindow'
<1>1. \A p \in Calls : admittedAt[p] # None => Cardinality(Lately(admittedAt[p])) <= Limit
  BY DEF AtMostLimitPerWindow, Lately
<1>2. SUFFICES ASSUME NEW p \in Calls, admittedAt'[p] # None
               PROVE  Cardinality(Lately(admittedAt[p])') <= Limit
  BY DEF AtMostLimitPerWindow, Lately
<1>3. CASE admittedAt' = admittedAt
  <2>1. Lately(admittedAt[p])' = Lately(admittedAt[p])
    BY <1>3 DEF Lately
  <2> QED
    BY <1>1, <1>2, <1>3, <2>1
<1>4. ASSUME NEW r \in Calls, CallWindow(r), admittedAt' # admittedAt
      PROVE  Cardinality(Lately(admittedAt[p])') <= Limit
  <2>1. /\ clock \in Nat /\ stamp[r] \in Nat /\ stamp[r] <= clock
        /\ \A q \in Calls : q # r => admittedAt'[q] = admittedAt[q]
        /\ admittedAt[r] = None /\ HasRoom(stamp[r], clock)
        /\ admittedAt'[r] = clock
    BY <1>4, CallWindowFacts
  <2>2. /\ IsFiniteSet(Lately(clock)) /\ Cardinality(Lately(clock)) \in Nat
        /\ Cardinality(Lately(clock)) < Limit
    BY <2>1, LatelyFewer
  <2>3. PICK t : t = admittedAt'[p]
    OBVIOUS
  <2>4. CASE t = clock
    <3>1. Lately(admittedAt[p])' \subseteq Lately(clock) \cup {r}
      BY <2>1, <2>3, <2>4 DEF Lately
    <3>2. /\ IsFiniteSet(Lately(clock) \cup {r})
          /\ Cardinality(Lately(clock) \cup {r}) \in Nat
          /\ Cardinality(Lately(clock) \cup {r}) <= Cardinality(Lately(clock)) + 1
      BY <2>2, OneMore
    <3>3. /\ Cardinality(Lately(admittedAt[p])') \in Nat
          /\ Cardinality(Lately(admittedAt[p])') <= Cardinality(Lately(clock) \cup {r})
      BY <3>1, <3>2, RoomIsMonotone
    <3> QED
      BY <2>2, <3>2, <3>3
  <2>5. CASE t # clock
    <3>1. p # r /\ t = admittedAt[p] /\ t \in Nat /\ t <= clock
      BY <1>2, <2>1, <2>3, <2>5 DEF AdmittedInv, IsKept, Base, TypeOK
    <3>2. Lately(admittedAt[p])' = Lately(admittedAt[p])
      BY <2>1, <2>3, <2>5, <3>1 DEF Lately
    <3> QED
      BY <1>1, <1>2, <2>3, <3>1, <3>2
  <2> QED
    BY <2>4, <2>5
<1> QED
  BY <1>3, <1>4, OthersLeaveWindow

(***************************************************************************)
(* Less is recent when the sorted set and its life have not grown and the  *)
(* clock has not gone back, so room remains.                               *)
(***************************************************************************)
LEMMA RoomRemains ==
  ASSUME Base, NEW w \in Nat, HasRoom(w, clock),
         entries' \subseteq entries, windowExpires' = windowExpires,
         clock' \in Nat, clock' >= clock
  PROVE  HasRoom(w, clock)'
<1>1. clock \in Nat /\ clock \in Int /\ clock' \in Int /\ w \in Int
      /\ windowExpires \in Nat /\ WindowTypeOK /\ SmallWindow
  <2>1. clock \in Nat /\ windowExpires \in Nat /\ WindowTypeOK /\ SmallWindow
    BY DEF Base, TypeOK, WindowTypeOK
  <2> QED
    BY <2>1
<1>2. IsFiniteSet(Recent(w, clock)) /\ Cardinality(Recent(w, clock)) < Limit
  BY <1>1, RecentFacts DEF HasRoom
<1>3. Recent(w, clock)' \subseteq Recent(w, clock)
  BY <1>1 DEF Recent, Members
<1>4. /\ Cardinality(Recent(w, clock)') \in Nat /\ Cardinality(Recent(w, clock)) \in Nat
      /\ Cardinality(Recent(w, clock)') <= Cardinality(Recent(w, clock))
  BY <1>2, <1>3, RoomIsMonotone
<1> QED
  BY <1>2, <1>4 DEF HasRoom

(***************************************************************************)
(* A refusal waits for the oldest entry, and keeps Limit at most.          *)
(***************************************************************************)
LEMMA RefusalKeepsWord ==
  ASSUME Base, WindowKeepsWord, NEW r \in Calls, NEW now \in Nat,
         WindowScript(r, now, clock), UNCHANGED clock
  PROVE  WindowKeepsWord'
<1>1. clock \in Nat /\ WindowTypeOK /\ SmallWindow /\ windowWaits \subseteq Nat
  BY DEF Base, TypeOK, WindowTypeOK
<1>2. CASE HasRoom(now, clock)
  BY <1>2 DEF WindowScript, WindowKeepsWord, WindowWaitSuffices
<1>3. CASE ~HasRoom(now, clock)
  <2>1. PICK R : R = Recent(now, clock)
    OBVIOUS
  <2>2. /\ entries' = R /\ windowExpires' = windowExpires
        /\ windowWaits' = windowWaits \cup {now + WindowWaitMs(now, clock)}
    BY <1>3, <2>1 DEF WindowScript
  <2>3. R \subseteq entries /\ IsFiniteSet(R) /\ Cardinality(R) \in Nat
        /\ Cardinality(R) <= Limit
    <3>1. R \subseteq entries
      BY <2>1 DEF Recent, Members
    <3>2. /\ IsFiniteSet(R) /\ Cardinality(R) \in Nat /\ Cardinality(entries) \in Nat
          /\ Cardinality(R) <= Cardinality(entries)
      BY <1>1, <3>1, RoomIsMonotone DEF SmallWindow
    <3> QED
      BY <1>1, <3>1, <3>2 DEF SmallWindow
  <2>4. ASSUME NEW w \in windowWaits
        PROVE  HasRoom(w, clock)'
    <3>1. w \in Nat /\ HasRoom(w, clock)
      BY <1>1 DEF WindowKeepsWord, WindowWaitSuffices
    <3> QED
      BY <1>1, <2>2, <2>3, <3>1, RoomRemains
  <2>5. PICK w \in Nat, oldest \in Nat :
          /\ w = now + WindowWaitMs(now, clock) /\ w >= oldest + Window
          /\ \E e \in R : e.score = oldest
    BY <1>1, <1>3, <2>1, OldestFacts, WindowWaitFacts
  <2>6. HasRoom(w, clock)'
    <3>1. PICK e \in R : e.score = oldest
      BY <2>5
    <3>2. ~(oldest > w - Window)
      BY <2>5
    <3>3. PICK Q : Q = Recent(w, clock)'
      OBVIOUS
    <3>4. Q \subseteq R /\ e \notin Q
      BY <2>2, <3>1, <3>2, <3>3 DEF Recent, Members
    <3>5. Cardinality(Q) \in Nat /\ Cardinality(Q) <= Cardinality(R) /\ Q # R
      BY <2>3, <3>1, <3>4, RoomIsMonotone
    <3>6. Cardinality(R) # Cardinality(Q)
      BY <2>3, <3>4, <3>5, FS_Subset
    <3>7. Cardinality(Q) < Limit
      BY <2>3, <3>5, <3>6
    <3> QED
      BY <3>3, <3>7 DEF HasRoom
  <2>7. windowWaits' = windowWaits \cup {w}
    BY <2>2, <2>5
  <2> QED
    BY <2>4, <2>6, <2>7 DEF WindowKeepsWord, WindowWaitSuffices
<1> QED
  BY <1>2, <1>3

(***************************************************************************)
(* Every step keeps the word of the window: as long as nobody is let in, a *)
(* caller at an announced time finds room.                                 *)
(***************************************************************************)
LEMMA NextWindowWord ==
  ASSUME Base, WindowKeepsWord, [Next]_vars
  PROVE  WindowKeepsWord'
<1>1. ASSUME UNCHANGED windowVars, clock' = clock \/ Tick
      PROVE  WindowKeepsWord'
  <2>1. clock \in Nat /\ windowWaits \subseteq Nat
    BY DEF Base, TypeOK, WindowTypeOK
  <2>2. clock' \in Nat /\ clock' >= clock
    BY <1>1, <2>1 DEF Tick
  <2>3. ASSUME NEW w \in windowWaits
        PROVE  HasRoom(w, clock)'
    <3>1. w \in Nat /\ HasRoom(w, clock)
      BY <2>1 DEF WindowKeepsWord, WindowWaitSuffices
    <3> QED
      BY <1>1, <2>2, <3>1, RoomRemains DEF windowVars
  <2> QED
    BY <1>1, <2>3 DEF windowVars, WindowKeepsWord, WindowWaitSuffices
<1>2. ASSUME NEW r \in Calls, CallWindow(r)
      PROVE  WindowKeepsWord'
  <2>1. /\ stamp[r] \in Nat /\ UNCHANGED clock
        /\ WindowScript(r, stamp[r], clock) \/ UNCHANGED windowVars
    BY <1>2 DEF CallWindow, Base, TypeOK
  <2> QED
    BY <1>1, <2>1, RefusalKeepsWord
<1> QED
  BY <1>1, <1>2, OthersLeaveWindow

(***************************************************************************)
(* The window's invariant holds of every behaviour.                        *)
(***************************************************************************)
LEMMA WindowHolds ==
  Spec => [](Base /\ AdmittedInv /\ AtMostLimitPerWindow /\ WindowKeepsWord)
<1> DEFINE WInv == Base /\ AdmittedInv /\ AtMostLimitPerWindow /\ WindowKeepsWord
<1>1. Init => WInv
  <2>1. Init => AdmittedInv /\ AtMostLimitPerWindow /\ WindowKeepsWord
    BY DEF Init, InitWindow, AdmittedInv, AtMostLimitPerWindow, WindowKeepsWord,
           WindowWaitSuffices
  <2> QED
    BY <2>1, InitBase
<1>2. WInv /\ [Next]_vars => WInv'
  BY NextBase, NextAdmitted, NextAtMostLimit, NextWindowWord
<1> QED
  BY <1>1, <1>2, PTL DEF Spec

(***************************************************************************)
(* In any Window - MaxDelay ticks on end at most Limit requests pass,      *)
(* whatever the order of the scripts and however late they are.            *)
(***************************************************************************)
THEOREM WindowLimitsRequests == Spec => []AtMostLimitPerWindow
  BY WindowHolds, PTL

(***************************************************************************)
(* A caller the window refused finds room at the time it was told, if      *)
(* nobody was let in since.                                                *)
(***************************************************************************)
THEOREM WindowWaitIsEnough == Spec => []WindowKeepsWord
  BY WindowHolds, PTL

-----------------------------------------------------------------------------
(* The token bucket.                                                       *)

(***************************************************************************)
(* What was taken in excess of what was given back and refilled is missing *)
(* in the bucket.                                                          *)
(***************************************************************************)
Excess == burst - Unit * returned - Rate * setBack

Lacking ==
  Full - bucket.tokens - Rate * (clock - bucket.lastMs) + Rate * MaxDelay

BurstInv == Excess <= 0 \/ (bucket # None /\ Excess <= Lacking)

(***************************************************************************)
(* The types of what the bucket's arithmetic is about.                     *)
(***************************************************************************)
LEMMA BucketNumbers ==
  ASSUME Base
  PROVE  /\ clock \in Nat /\ burst \in Nat /\ returned \in Nat /\ setBack \in Nat
         /\ Excess \in Int
         /\ bucket # None => /\ bucket.tokens \in Nat /\ bucket.lastMs \in Nat
                             /\ bucket.lastMs <= clock /\ bucket.expires \in Nat
                             /\ bucket.lastMs + BucketTTL <= bucket.expires
<1>1. /\ clock \in Nat /\ burst \in Nat /\ returned \in Nat /\ setBack \in Nat
      /\ bucket # None => bucket.tokens \in Nat
  BY DEF Base, TypeOK, BucketTypeOK
<1>2. Excess \in Int
  BY <1>1, Products DEF Excess
<1>3. bucket # None => /\ bucket.lastMs \in Nat
                       /\ bucket.lastMs <= clock /\ bucket.expires \in Nat
                       /\ bucket.lastMs + BucketTTL <= bucket.expires
  BY DEF Base, KeyInv
<1> QED
  BY <1>1, <1>2, <1>3

(***************************************************************************)
(* A bucket that was forgotten would have been full.                       *)
(***************************************************************************)
LEMMA ForgottenWasFull ==
  ASSUME Base, BurstInv, Stored(clock) = None
  PROVE  Excess <= 0
<1>1. CASE bucket = None
  BY <1>1 DEF BurstInv
<1>2. CASE bucket # None
  <2>1. PICK tokens \in Nat, last \in Nat :
          /\ tokens = bucket.tokens /\ last = bucket.lastMs
          /\ clock \in Nat /\ last + BucketTTL <= clock
    <3>1. clock >= bucket.expires
      BY <1>2 DEF Stored
    <3> QED
      BY <1>2, <3>1, BucketNumbers, Parameters
  <2>2. PICK a \in Int, b \in Int, c \in Int :
          /\ a = Rate * (clock - last) /\ b = Rate * MaxDelay
          /\ c = Rate * (BucketTTL - MaxDelay)
    BY <2>1, DelayFacts, Products
  <2>3. a - b >= c
    <3>1. /\ BucketTTL - MaxDelay <= (clock - last) - MaxDelay
          /\ BucketTTL - MaxDelay \in Int /\ clock - last \in Int
          /\ (clock - last) - MaxDelay \in Int
      BY <2>1, DelayFacts
    <3>2. Rate * ((clock - last) - MaxDelay) = a - b
      BY <2>2, <3>1, DelayFacts, Products
    <3>3. Rate * (BucketTTL - MaxDelay) <= Rate * ((clock - last) - MaxDelay)
      BY <3>1, Products
    <3> QED
      BY <2>2, <3>2, <3>3
  <2>4. Full <= c /\ Full \in Nat
    BY <2>2, DelayAssumption, FullFacts
  <2>5. Lacking = Full - tokens - a + b
    BY <2>1, <2>2 DEF Lacking
  <2>6. Lacking <= 0
    BY <2>1, <2>2, <2>3, <2>4, <2>5
  <2>7. Lacking \in Int /\ Excess \in Int
    BY <2>1, <2>2, <2>4, <2>5, BucketNumbers
  <2> QED
    BY <2>6, <2>7 DEF BurstInv
<1> QED
  BY <1>1, <1>2

(***************************************************************************)
(* A script first refills the bucket and sets its time, back if it is      *)
(* late: the excess stays within what is lacking then.                     *)
(***************************************************************************)
LEMMA ScriptRefills ==
  ASSUME Base, BurstInv, NEW now \in Nat, now <= clock, clock <= now + MaxDelay
  PROVE  Excess - Rate * SetBackBy(now, clock)
           <= Full - Level(now, clock) - Rate * (clock - now) + Rate * MaxDelay
<1>1. /\ clock \in Nat /\ Excess \in Int /\ Full \in Nat
      /\ Level(now, clock) \in Nat /\ Level(now, clock) <= Full
  BY BucketNumbers, FullFacts, LevelType DEF Base, TypeOK
<1>2. CASE Stored(clock) = None
  <2>1. Excess <= 0 /\ SetBackBy(now, clock) = 0 /\ Level(now, clock) = Full
    BY <1>2, ForgottenWasFull DEF SetBackBy, Level
  <2>2. Rate * (clock - now) <= Rate * MaxDelay
    <3>1. clock - now <= MaxDelay /\ clock - now \in Int
      BY <1>1, DelayFacts
    <3> QED
      BY <3>1, DelayFacts, Products
  <2>3. Rate * (clock - now) \in Int /\ Rate * MaxDelay \in Int
    BY <1>1, DelayFacts, Products
  <2> QED
    BY <1>1, <2>1, <2>2, <2>3
<1>3. CASE Stored(clock) = bucket /\ bucket # None
  <2>1. PICK tokens \in Nat, last \in Nat :
          tokens = bucket.tokens /\ last = bucket.lastMs
    BY <1>3, BucketNumbers
  <2>2. /\ SetBackBy(now, clock) = Larger(0, last - now)
        /\ Level(now, clock) = Smaller(Full, tokens + Rate * Larger(0, now - last))
    BY <1>3, <2>1 DEF SetBackBy, Level
  <2>3. Rate * Larger(0, now - last) \in Int
    BY DEF Larger
  <2>4. Level(now, clock) <= tokens + Rate * Larger(0, now - last)
    BY <1>1, <2>2, <2>3 DEF Smaller
  <2>5. Excess <= 0 \/ Excess <= Full - tokens - Rate * (clock - last) + Rate * MaxDelay
    BY <1>3, <2>1 DEF BurstInv, Lacking
  <2> QED
    BY <1>1, <2>1, <2>2, <2>4, <2>5, DelayFacts, RefillKeepsExcess
<1> QED
  BY <1>2, <1>3 DEF Stored

(***************************************************************************)
(* A run of the bucket's script keeps the meter within its bound, however  *)
(* late it runs.                                                           *)
(***************************************************************************)
LEMMA ScriptBurst ==
  ASSUME Base, BurstInv, NEW now \in Nat, now <= clock, clock <= now + MaxDelay,
         BucketScript(now, clock), UNCHANGED clock
  PROVE  BurstInv'
<1>1. /\ clock \in Nat /\ burst \in Nat /\ returned \in Nat /\ setBack \in Nat
      /\ Full \in Nat /\ Level(now, clock) \in Nat /\ SetBackBy(now, clock) \in Nat
  <2>1. SetBackBy(now, clock) \in Nat
    <3>1. bucket # None => bucket.lastMs \in Nat
      BY BucketNumbers
    <3> QED
      BY <3>1 DEF SetBackBy, Larger, Stored
  <2> QED
    BY <2>1, BucketNumbers, FullFacts, LevelType DEF Base, TypeOK
<1>2. PICK level \in Nat, back \in Nat :
        level = Level(now, clock) /\ back = SetBackBy(now, clock)
  BY <1>1
<1>3. PICK u \in Int, w \in Int, x \in Int, y \in Int, z \in Int :
        /\ u = Unit * returned /\ w = Rate * setBack /\ x = Rate * back
        /\ y = Rate * (clock - now) /\ z = Rate * MaxDelay
  BY <1>1, DelayFacts, Products
<1>4. burst - u - w - x <= Full - level - y + z
  BY <1>2, <1>3, ScriptRefills DEF Excess
<1>5. returned' = returned /\ setBack' = setBack + back /\ clock' = clock
  BY <1>2 DEF BucketScript
<1>6. Rate * (setBack + back) = w + x
  BY <1>1, <1>3, Products
<1>7. Excess' = burst' - u - (w + x)
  BY <1>3, <1>5, <1>6 DEF Excess
<1>8. /\ bucket' # None /\ bucket'.lastMs = now
      /\ \/ burst' = burst + Unit /\ bucket'.tokens = level - Unit
         \/ burst' = burst /\ bucket'.tokens = level
  <2>1. bucket' # None
    BY BucketScriptFacts, <1>1 DEF Base, TypeOK
  <2> QED
    BY <1>2, <2>1 DEF BucketScript
<1>9. PICK tokens \in Int : tokens = bucket'.tokens
  BY <1>8
<1>10. Lacking' = Full - tokens - y + z
  BY <1>3, <1>5, <1>8, <1>9 DEF Lacking
<1>11. Excess' <= Lacking'
  <2>1. \/ burst' = burst + Unit /\ tokens = level - Unit
        \/ burst' = burst /\ tokens = level
    BY <1>8, <1>9
  <2> QED
    BY <1>1, <1>2, <1>3, <1>4, <1>7, <1>9, <1>10, <2>1
<1> QED
  BY <1>8, <1>11 DEF BurstInv

(***************************************************************************)
(* A token given back, or the expiry it renews, is in the allowance of the *)
(* meter.                                                                  *)
(***************************************************************************)
LEMMA GiveBackBurst ==
  ASSUME Base, BurstInv, NEW r \in Calls, GiveBack(r)
  PROVE  BurstInv'
<1>1. CASE UNCHANGED bucketVars
  BY <1>1 DEF GiveBack, bucketVars, BurstInv, Excess, Lacking
<1>2. CASE HIncrBy(clock) /\ ~UNCHANGED bucketVars
  <2>1. /\ BucketTypeOK /\ clock \in Nat /\ Stored(clock) = bucket /\ bucket # None
    BY GiveBackFindsBucket DEF Base, TypeOK
  <2>2. /\ bucket' # None /\ bucket'.lastMs = bucket.lastMs /\ clock' = clock
        /\ bucket'.tokens = bucket.tokens + Unit /\ returned' = returned + 1
        /\ UNCHANGED <<burst, setBack>>
    BY <1>2, <2>1, RollbackFacts DEF GiveBack
  <2>3. /\ burst \in Nat /\ returned \in Nat /\ setBack \in Nat /\ bucket.tokens \in Nat
        /\ bucket.lastMs \in Nat
    BY <2>1, BucketNumbers
  <2>4. PICK u \in Int, w \in Int, y \in Int, z \in Int, tokens \in Nat :
          /\ u = Unit * returned /\ w = Rate * setBack
          /\ y = Rate * (clock - bucket.lastMs) /\ z = Rate * MaxDelay
          /\ tokens = bucket.tokens
    BY <2>1, <2>3, DelayFacts, Products
  <2>5. Unit * (returned + 1) = u + Unit
    BY <2>3, <2>4, Products
  <2>6. Excess = burst - u - w /\ Excess' = burst - (u + Unit) - w
    BY <2>2, <2>4, <2>5 DEF Excess
  <2>7. Lacking = Full - tokens - y + z /\ Lacking' = Full - (tokens + Unit) - y + z
    BY <2>2, <2>4 DEF Lacking
  <2>8. Excess <= 0 \/ Excess <= Lacking
    BY DEF BurstInv
  <2>9. Excess' <= 0 \/ Excess' <= Lacking'
    BY <2>3, <2>4, <2>6, <2>7, <2>8, FullFacts
  <2> QED
    BY <2>2, <2>9 DEF BurstInv
<1> QED
  BY <1>1, <1>2 DEF GiveBack

(***************************************************************************)
(* A tick of the clock lowers the meter by what it refills.                *)
(***************************************************************************)
LEMMA TickBurst ==
  ASSUME Base, BurstInv, Tick
  PROVE  BurstInv'
<1>1. /\ burst \in Nat /\ returned \in Nat /\ setBack \in Nat /\ clock \in Nat
      /\ bucket # None => bucket.tokens \in Nat /\ bucket.lastMs \in Nat
  BY BucketNumbers
<1>2. /\ UNCHANGED <<bucket, returned, setBack>> /\ clock' = clock + 1
      /\ burst' = Larger(0, burst - Rate)
  BY DEF Tick, Drain
<1>3. PICK u \in Int, w \in Int : u = Unit * returned /\ w = Rate * setBack
                                  /\ u >= 0 /\ w >= 0
  BY <1>1, Products
<1>4. Excess = burst - u - w /\ Excess' = burst' - u - w
  BY <1>2, <1>3 DEF Excess
<1>5. CASE burst' = 0 \/ Excess <= 0
  <2>1. burst' = 0 \/ (burst' = burst - Rate /\ Excess <= 0)
    BY <1>1, <1>2, <1>5 DEF Larger
  <2>2. Excess' <= 0
    BY <1>1, <1>3, <1>4, <2>1
  <2> QED
    BY <2>2 DEF BurstInv
<1>6. CASE burst' = burst - Rate /\ ~(Excess <= 0)
  <2>1. bucket # None /\ Excess <= Lacking
    BY <1>6 DEF BurstInv
  <2>2. PICK tokens \in Nat, y \in Int, z \in Int :
          /\ tokens = bucket.tokens /\ y = Rate * (clock - bucket.lastMs)
          /\ z = Rate * MaxDelay
    BY <1>1, <2>1, DelayFacts, Products
  <2>3. Rate * (clock + 1 - bucket.lastMs) = y + Rate
    <3>1. clock + 1 - bucket.lastMs = (clock - bucket.lastMs) + 1
          /\ clock - bucket.lastMs \in Int
      BY <1>1, <2>1
    <3> QED
      BY <2>2, <3>1, Products
  <2>4. Lacking = Full - tokens - y + z /\ Lacking' = Full - tokens - (y + Rate) + z
    <3>1. bucket' = bucket /\ clock' = clock + 1
      BY <1>2
    <3>2. clock' - bucket'.lastMs = clock + 1 - bucket.lastMs
      BY <1>1, <2>1, <3>1
    <3>3. Rate * (clock' - bucket'.lastMs) = y + Rate
      BY <2>3, <3>2
    <3>4. Lacking = Full - tokens - y + z
      BY <2>2 DEF Lacking
    <3>5. Lacking' = Full - tokens - (y + Rate) + z
      BY <2>2, <3>1, <3>3 DEF Lacking
    <3> QED
      BY <3>4, <3>5
  <2>5. Excess' <= Lacking'
    BY <1>1, <1>3, <1>4, <1>6, <2>1, <2>2, <2>4, FullFacts
  <2> QED
    BY <1>2, <2>1, <2>5 DEF BurstInv
<1> QED
  BY <1>1, <1>2, <1>5, <1>6 DEF Larger

(***************************************************************************)
(* Only a bucket's call, a Rollback and the time change the bucket.        *)
(***************************************************************************)
LEMMA BucketSteps ==
  ASSUME Base, [Next]_vars
  PROVE  \/ UNCHANGED <<bucketVars, clock>>
         \/ Tick
         \/ \E r \in Calls : GiveBack(r)
         \/ \E now \in Nat : /\ now <= clock /\ clock <= now + MaxDelay
                             /\ BucketScript(now, clock) /\ UNCHANGED clock
<1>1. ASSUME NEW r \in Calls, CallBucket(r)
      PROVE  \/ UNCHANGED <<bucketVars, clock>>
             \/ \E now \in Nat : /\ now <= clock /\ clock <= now + MaxDelay
                                 /\ BucketScript(now, clock) /\ UNCHANGED clock
  <2>1. stamp[r] \in Nat /\ stamp[r] <= clock /\ clock <= stamp[r] + MaxDelay
    BY <1>1, PendingFacts DEF CallBucket
  <2> QED
    BY <1>1, <2>1 DEF CallBucket
<1>2. ASSUME NEW r \in Calls, ReadClock(r) \/ CallWindow(r)
      PROVE  UNCHANGED <<bucketVars, clock>>
  BY <1>2 DEF ReadClock, CallWindow
<1>3. CASE UNCHANGED vars
  BY <1>3 DEF vars
<1> QED
  BY <1>1, <1>2, <1>3 DEF Next, Rest

(***************************************************************************)
(* Every step keeps the meter within its bound.                            *)
(***************************************************************************)
LEMMA NextBurst ==
  ASSUME Base, BurstInv, [Next]_vars
  PROVE  BurstInv'
<1>1. CASE UNCHANGED <<bucketVars, clock>>
  BY <1>1 DEF bucketVars, BurstInv, Excess, Lacking
<1> QED
  BY <1>1, BucketSteps, TickBurst, GiveBackBurst, ScriptBurst

(***************************************************************************)
(* In no interval are more tokens taken than a full bucket holds and the   *)
(* interval refills, but for what was given back, what late scripts make   *)
(* the bucket refill twice, and the delay of the interval's first caller.  *)
(***************************************************************************)
THEOREM BurstStaysBounded == Spec => []BurstBounded
<1>1. Init => BurstInv
  BY Products DEF Init, InitBucket, BurstInv, Excess
<1>2. Base /\ BurstInv => BurstBounded
  <2> SUFFICES ASSUME Base, BurstInv PROVE BurstBounded
    OBVIOUS
  <2>1. /\ burst \in Nat /\ returned \in Nat /\ setBack \in Nat /\ clock \in Nat
        /\ Excess \in Int
    BY BucketNumbers
  <2>2. PICK u \in Int, w \in Int, z \in Int :
          u = Unit * returned /\ w = Rate * setBack /\ z = Rate * MaxDelay /\ z >= 0
    BY <2>1, DelayFacts, Products
  <2>3. Excess = burst - u - w
    BY <2>2 DEF Excess
  <2>4. Excess <= Full + z
    <3>1. CASE bucket # None /\ Excess <= Lacking
      <4>1. PICK tokens \in Nat, y \in Nat :
              tokens = bucket.tokens /\ y = Rate * (clock - bucket.lastMs)
        <5>1. /\ bucket.tokens \in Nat /\ clock - bucket.lastMs \in Nat
          BY <2>1, <3>1, BucketNumbers
        <5>2. Rate * (clock - bucket.lastMs) \in Nat
          BY <5>1
        <5> QED
          BY <5>1, <5>2
      <4>2. Lacking = Full - tokens - y + z
        BY <2>2, <4>1 DEF Lacking
      <4> QED
        BY <2>1, <2>2, <3>1, <4>1, <4>2, FullFacts
    <3>2. CASE Excess <= 0
      BY <2>1, <2>2, <3>2, FullFacts
    <3> QED
      BY <3>1, <3>2 DEF BurstInv
  <2>5. Rate * (setBack + MaxDelay) = w + z
    BY <2>1, <2>2, DelayFacts, Products
  <2> QED
    BY <2>1, <2>2, <2>3, <2>4, <2>5, FullFacts DEF BurstBounded, BurstIsBounded
<1> QED
  BY <1>1, <1>2, BaseHolds, InitBase, NextBase, NextBurst, PTL DEF Spec

(***************************************************************************)
(* A refusal stores what it saw: who was refused before loses nothing, and *)
(* the new wait refills what is missing.                                   *)
(***************************************************************************)
LEMMA ScriptBucketWord ==
  ASSUME Base, BucketKeepsWord, NEW now \in Nat, BucketScript(now, clock),
         UNCHANGED clock
  PROVE  BucketKeepsWord'
<1>1. CASE HasToken(now, clock)
  BY <1>1 DEF BucketScript, BucketKeepsWord, BucketWaitSuffices
<1>2. CASE ~HasToken(now, clock)
  <2>1. PICK level \in Nat, wait \in Nat :
          /\ level = Level(now, clock) /\ wait = WaitMs(now, clock)
          /\ level + Rate * wait >= Unit
    BY <1>2, LevelType, WaitFacts DEF Base, TypeOK
  <2>2. /\ bucket' = [tokens |-> level, lastMs |-> now, expires |-> clock + BucketTTL]
        /\ bucketWaits' = bucketWaits \cup {now + wait}
        /\ clock' = clock /\ clock \in Nat /\ bucketWaits \subseteq Nat
    BY <1>2, <2>1 DEF BucketScript, BucketExpiry, Base, TypeOK, BucketTypeOK
  <2>3. bucket' # None
    BY <2>2, BucketScriptFacts DEF Base, TypeOK
  <2>4. ~(clock >= clock + BucketTTL)
    BY <2>2, Parameters
  <2>5. Stored(clock)' = bucket'
    BY <2>2, <2>4 DEF Stored
  <2>6. \A t \in Nat : Level(t, clock)' = Smaller(Full, level + Rate * Larger(0, t - now))
    BY <2>2, <2>3, <2>5, Parameters DEF Level
  <2>7. ASSUME NEW t \in Nat, level + Rate * Larger(0, t - now) >= Unit
        PROVE  HasToken(t, clock)'
    <3>1. Rate * Larger(0, t - now) \in Int
      BY DEF Larger
    <3>2. Smaller(Full, level + Rate * Larger(0, t - now)) >= Unit
      BY <2>7, <3>1, FullFacts DEF Smaller
    <3> QED
      BY <2>6, <3>2 DEF HasToken
  <2>8. HasToken(now + wait, clock)'
    <3>1. Larger(0, (now + wait) - now) = wait
      BY DEF Larger
    <3> QED
      BY <2>1, <2>7, <3>1
  <2>9. ASSUME NEW t \in bucketWaits
        PROVE  HasToken(t, clock)'
    <3>1. t \in Nat /\ Level(t, clock) >= Unit /\ level < Unit
      BY <1>2, <2>1, <2>2 DEF BucketKeepsWord, BucketWaitSuffices, HasToken
    <3>2. Stored(clock) = bucket /\ bucket # None
      <4>1. Stored(clock) # None
        BY <2>1, <3>1, FullFacts DEF Level
      <4> QED
        BY <4>1 DEF Stored
    <3>3. PICK tokens \in Nat, last \in Nat : tokens = bucket.tokens /\ last = bucket.lastMs
      BY <3>2, BucketNumbers
    <3>4. /\ level = Smaller(Full, tokens + Rate * Larger(0, now - last))
          /\ Level(t, clock) = Smaller(Full, tokens + Rate * Larger(0, t - last))
      BY <2>1, <3>2, <3>3, Parameters DEF Level
    <3>5. PICK x \in Int, y \in Int, z \in Int :
            /\ x = Rate * Larger(0, now - last) /\ y = Rate * Larger(0, t - now)
            /\ z = Rate * Larger(0, t - last)
      <4>1. \A n \in Int : Rate * Larger(0, n) \in Int
        BY DEF Larger
      <4> QED
        BY <3>1, <4>1
    <3>6. x + y >= z
      BY <3>1, <3>5, RefillInSteps
    <3>7. level = tokens + x /\ tokens + z >= Unit
      BY <3>1, <3>3, <3>4, <3>5, FullFacts DEF Smaller
    <3> QED
      BY <2>7, <3>1, <3>3, <3>5, <3>6, <3>7
  <2> QED
    BY <2>2, <2>8, <2>9 DEF BucketKeepsWord, BucketWaitSuffices
<1> QED
  BY <1>1, <1>2

(***************************************************************************)
(* The bucket keeps its word in every step: an announced wait is enough    *)
(* until a later request takes the token.                                  *)
(***************************************************************************)
LEMMA NextBucketWord ==
  ASSUME Base, BucketKeepsWord, [Next]_vars
  PROVE  BucketKeepsWord'
<1>1. CASE UNCHANGED <<bucketVars, clock>>
  BY <1>1 DEF bucketVars, BucketKeepsWord, BucketWaitSuffices, HasToken, Level, Stored
<1>2. CASE Tick
  <2>1. UNCHANGED <<bucket, bucketWaits>>
    BY <1>2 DEF Tick
  <2>2. ASSUME NEW t \in bucketWaits
        PROVE  HasToken(t, clock)'
    <3>1. Stored(clock)' = None \/ Stored(clock)' = Stored(clock)
      <4>1. clock \in Nat /\ clock' = clock + 1 /\ (bucket # None => bucket.expires \in Nat)
        BY <1>2, BucketNumbers DEF Tick
      <4>2. bucket # None /\ clock >= bucket.expires => clock + 1 >= bucket.expires
        BY <4>1
      <4> QED
        BY <2>1, <4>1, <4>2 DEF Stored
    <3>2. Level(t, clock)' = Full \/ Level(t, clock)' = Level(t, clock)
      BY <3>1 DEF Level
    <3>3. Level(t, clock) >= Unit
      BY DEF BucketKeepsWord, BucketWaitSuffices, HasToken
    <3> QED
      BY <3>2, <3>3, FullFacts DEF HasToken
  <2> QED
    BY <2>1, <2>2 DEF BucketKeepsWord, BucketWaitSuffices
<1>3. ASSUME NEW r \in Calls, GiveBack(r), ~UNCHANGED <<bucketVars, clock>>
      PROVE  BucketKeepsWord'
  <2>1. /\ BucketTypeOK /\ clock \in Nat /\ Stored(clock) = bucket /\ bucket # None
    BY <1>3, GiveBackFindsBucket DEF Base, TypeOK
  <2>2. /\ bucket' # None /\ bucket'.lastMs = bucket.lastMs /\ clock' = clock
        /\ bucket'.expires = bucket.expires
        /\ bucket'.tokens = bucket.tokens + Unit /\ bucketWaits' = bucketWaits
    BY <1>3, <2>1, RollbackFacts DEF GiveBack
  <2>3. /\ bucket.tokens \in Nat /\ bucket.lastMs \in Nat /\ bucketWaits \subseteq Nat
        /\ bucket # None /\ bucket.expires \in Nat
    BY <2>1, BucketNumbers DEF BucketTypeOK
  <2>4. Stored(clock)' = bucket'
    <3>1. ~(clock >= bucket.expires)
      BY <2>1, <2>3, Parameters DEF Stored
    <3> QED
      BY <2>2, <3>1 DEF Stored
  <2>5. ASSUME NEW t \in bucketWaits
        PROVE  HasToken(t, clock)'
    <3>1. t \in Nat /\ Level(t, clock) >= Unit
      BY <2>3 DEF BucketKeepsWord, BucketWaitSuffices, HasToken
    <3>2. PICK z \in Int : z = Rate * Larger(0, t - bucket.lastMs)
      BY <2>3, <3>1 DEF Larger
    <3>3. /\ Level(t, clock) = Smaller(Full, bucket.tokens + z)
          /\ Level(t, clock)' = Smaller(Full, bucket.tokens + Unit + z)
      BY <2>1, <2>2, <2>3, <2>4, <3>2, Parameters DEF Level
    <3>4. Smaller(Full, bucket.tokens + Unit + z) >= Unit
      BY <2>3, <3>1, <3>2, <3>3, FullFacts DEF Smaller
    <3> QED
      BY <3>3, <3>4 DEF HasToken
  <2> QED
    BY <2>2, <2>5 DEF BucketKeepsWord, BucketWaitSuffices
<1> QED
  BY <1>1, <1>2, <1>3, BucketSteps, ScriptBucketWord

(***************************************************************************)
(* A caller the bucket refused finds a token at the time it was told, if   *)
(* nobody took one since, whatever other callers were told meanwhile.      *)
(***************************************************************************)
THEOREM BucketWaitIsEnough == Spec => []BucketKeepsWord
<1>1. Init => BucketKeepsWord
  BY DEF Init, InitBucket, BucketKeepsWord, BucketWaitSuffices
<1> QED
  BY <1>1, BaseHolds, InitBase, NextBase, NextBucketWord, PTL DEF Spec

-----------------------------------------------------------------------------
(* What the configuration makes of the parameters.                         *)

App == INSTANCE Settings

(***************************************************************************)
(* Whatever the file says, the limiters and the queue get what their       *)
(* modules assume (BucketAssumption, WindowAssumption, QueueAssumption):   *)
(* no setting makes a bucket that never refills, a window that lets nobody *)
(* in, or a queue without room.                                            *)
(***************************************************************************)
THEOREM SettingsAreUsable ==
  ASSUME NEW cfg \in App!Config, NEW route \in App!Routes
  PROVE  /\ App!Bucket(cfg, route)
              \in [capacity : Nat \ {0}, rate : Nat \ {0}, ttl : Nat \ {0}]
         /\ App!SlidingWindow(cfg, route)
              \in [limit : Nat \ {0}, window : Nat \ {0}]
         /\ App!QueueSize(cfg) \in Nat \ {0}
<1>1. /\ cfg.BucketCapacity \in Int /\ cfg.BucketRefillPerSec \in Int
      /\ cfg.PerMinute[route] \in Int /\ cfg.AsyncQueueSize \in Int
  BY DEF App!Config
<1>2. App!Refill(cfg, route) \in Nat \ {0}
  BY <1>1 DEF App!Refill, App!AtLeast, App!Share
<1>3. App!Capacity(cfg, route) \in Nat \ {0}
  BY <1>1, <1>2 DEF App!Capacity, App!AtLeast, App!Share
<1> QED
  BY <1>1, <1>2, <1>3
  DEF App!Bucket, App!SlidingWindow, App!QueueSize, App!Positive

(***************************************************************************)
(* A bucket whose capacity is not configured is full within ten seconds,   *)
(* whatever rate it gets, so that the limiters bear calls that are less    *)
(* than thirty seconds late.                                               *)
(***************************************************************************)
THEOREM DerivedBucketToleratesDelay ==
  ASSUME NEW cfg \in App!Config, NEW route \in App!Routes,
         NEW delay \in 0 .. 29, cfg.BucketCapacity <= 0
  PROVE  App!ToleratesDelay(App!Bucket(cfg, route),
                            App!SlidingWindow(cfg, route), delay)
<1>1. /\ cfg.BucketCapacity \in Int /\ cfg.BucketRefillPerSec \in Int
      /\ cfg.PerMinute[route] \in Int
  BY DEF App!Config
<1>2. PICK refill \in Nat :
        refill = App!Refill(cfg, route) /\ refill >= App!Share
  BY <1>1 DEF App!Refill, App!AtLeast, App!Share
<1>3. PICK tokens \in Nat \ {0} :
        tokens = App!Capacity(cfg, route) /\ tokens * App!Share <= refill * 10
  BY <1>1, <1>2 DEF App!Capacity, App!AtLeast, App!Share
<1>4. refill * 10 <= refill * (60 - delay)
  BY <1>2
<1>5. App!Bucket(cfg, route) = [capacity |-> tokens, rate |-> refill, ttl |-> 60]
  BY <1>2, <1>3 DEF App!Bucket, App!Positive, App!Share
<1> QED
  BY <1>2, <1>3, <1>4, <1>5
  DEF App!ToleratesDelay, App!SlidingWindow, App!Share

(***************************************************************************)
(* A configured capacity is taken as it is, and then the file decides: the *)
(* fifty tokens at ten a second that the repository ships do.              *)
(***************************************************************************)
THEOREM ShippedBucketToleratesDelay ==
  ASSUME NEW cfg \in App!Config, NEW route \in App!Routes,
         NEW delay \in 0 .. 29, cfg.BucketCapacity = 50, cfg.BucketRefillPerSec = 10
  PROVE  App!ToleratesDelay(App!Bucket(cfg, route),
                            App!SlidingWindow(cfg, route), delay)
  BY DEF App!ToleratesDelay, App!Bucket, App!SlidingWindow, App!Refill,
         App!Capacity, App!Positive, App!Share

=============================================================================
