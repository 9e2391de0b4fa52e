----------------------------- MODULE TokenBucket -----------------------------
(***************************************************************************)
(* The first layer of the rate limiter (internal/ratelimit): a token       *)
(* bucket of one client address, kept in Redis as a hash and changed by a  *)
(* script, so in one step.  The script is given the time by its caller,    *)
(* who read the clock some time before: it may be late.                    *)
(*                                                                         *)
(* Time is counted in ticks and tokens in shares, Unit of which make a     *)
(* token, so that a tick refills a whole number of them.  Lua's floating   *)
(* point numbers are idealised as exact.                                   *)
(***************************************************************************)
EXTENDS Integers

CONSTANTS
  Capacity,    \* tokens of a full bucket
  Unit,        \* shares of a token
  Rate,        \* shares refilled per tick
  BucketTTL,   \* ticks after which an unused bucket is forgotten
  None

ASSUME BucketAssumption ==
  /\ Capacity \in Nat \ {0}
  /\ Unit \in Nat \ {0}
  /\ Rate \in Nat \ {0}
  /\ BucketTTL \in Nat \ {0}
  /\ None \notin Nat
  /\ None \notin [tokens : Nat, lastMs : Nat \cup {None}, expires : Nat \cup {None}]

VARIABLES
  bucket,      \* the hash: its fields and when it expires; None without key

  (* History. *)
  burst,       \* shares taken, less Rate for every tick: see Drain
  returned,    \* tokens given back so far
  setBack,     \* how far late scripts moved last_ms back, in all
  bucketWaits  \* the times refused callers were told to wait for

bucketVars == <<bucket, burst, returned, setBack, bucketWaits>>

Full == Capacity * Unit

InitBucket ==
  /\ bucket = None
  /\ burst = 0
  /\ returned = 0
  /\ setBack = 0
  /\ bucketWaits = {}

Smaller(m, n) == IF m <= n THEN m ELSE n
Larger(m, n)  == IF m >= n THEN m ELSE n

-----------------------------------------------------------------------------

(* Redis shows no key whose time has come.                                 *)
Stored(clock) ==
  IF bucket # None /\ bucket.expires # None /\ clock >= bucket.expires
    THEN None ELSE bucket

(* Mutant: the elapsed time not clipped at the capacity.                   *)
LevelUnclipped(now, clock) ==
  LET b == Stored(clock) IN
  IF b = None THEN Full
  ELSE IF b.lastMs = None THEN b.tokens
  ELSE b.tokens + Rate * Larger(0, now - b.lastMs)

(***************************************************************************)
(* The shares in the bucket at the time now: what was stored, refilled     *)
(* since last_ms (not at all by a caller who is late), or a full bucket.   *)
(***************************************************************************)
Level(now, clock) ==
  LET b == Stored(clock) IN
  IF b = None THEN Full
  ELSE IF b.lastMs = None THEN Smaller(Full, b.tokens)
  ELSE Smaller(Full, b.tokens + Rate * Larger(0, now - b.lastMs))

HasToken(now, clock) == Level(now, clock) >= Unit

(* Mutant: the wait rounded down.                                          *)
WaitRoundedDown(now, clock) == (Unit - Level(now, clock)) \div Rate

(* The ticks until the missing shares are refilled, rounded up.            *)
WaitMs(now, clock) == (Unit - Level(now, clock) + Rate - 1) \div Rate

(* Mutant: EXPIRE only when the script creates the key.                    *)
ExpiryOfNewKey(clock) ==
  IF Stored(clock) = None THEN clock + BucketTTL ELSE bucket.expires

BucketExpiry(clock) == clock + BucketTTL

SetBackBy(now, clock) ==
  LET b == Stored(clock) IN
  IF b = None \/ b.lastMs = None THEN 0 ELSE Larger(0, b.lastMs - now)

(* tokenBucketScript, run at clock by a caller who read the time now.      *)
BucketScript(now, clock) ==
  /\ setBack' = setBack + SetBackBy(now, clock)
  /\ UNCHANGED returned
  /\ \/ /\ HasToken(now, clock)
        /\ bucket' = [tokens  |-> Level(now, clock) - Unit,
                      lastMs  |-> now,
                      expires |-> BucketExpiry(clock)]
        /\ burst' = burst + Unit
        /\ bucketWaits' = {}
     \/ /\ ~HasToken(now, clock)
        /\ bucket' = [tokens  |-> Level(now, clock),
                      lastMs  |-> now,
                      expires |-> BucketExpiry(clock)]
        /\ bucketWaits' = bucketWaits \cup {now + WaitMs(now, clock)}
        /\ UNCHANGED burst

(***************************************************************************)
(* Rollback: HINCRBY adds one token; it refuses a field that is not a      *)
(* whole number, and makes a missing key, one that never expires.          *)
(***************************************************************************)
CanReturn(clock) ==
  LET b == Stored(clock) IN b # None => b.tokens % Unit = 0

HIncrBy(clock) ==
  \/ /\ CanReturn(clock)
     /\ bucket' = IF Stored(clock) = None
                    THEN [tokens |-> Unit, lastMs |-> None, expires |-> None]
                    ELSE [bucket EXCEPT !.tokens = @ + Unit]
     /\ returned' = returned + 1
     /\ UNCHANGED <<burst, setBack, bucketWaits>>
  \/ /\ ~CanReturn(clock)
     /\ UNCHANGED bucketVars

(***************************************************************************)
(* A meter beside the bucket: it rises with every token taken, falls by    *)
(* Rate in every tick, and so shows the largest excess of what was taken   *)
(* over what was refilled, in any interval that ends now.                  *)
(***************************************************************************)
Drain == burst' = Larger(0, burst - Rate)

-----------------------------------------------------------------------------

BucketTypeOK ==
  /\ bucket = None \/ bucket \in [tokens  : Nat,
                                  lastMs  : Nat \cup {None},
                                  expires : Nat \cup {None}]
  /\ burst \in Nat
  /\ returned \in Nat
  /\ setBack \in Nat
  /\ bucketWaits \subseteq Nat

(***************************************************************************)
(* Every bucket is forgotten some time after its last use: Rollback never  *)
(* makes a key without expiry (it would hold a single token and no time).  *)
(***************************************************************************)
BucketExpires == bucket # None => bucket.expires # None

(***************************************************************************)
(* In no interval are more tokens taken than a full bucket holds and the   *)
(* interval refills, but for what was given back, what late scripts make   *)
(* the bucket refill twice, and the delay of the interval's first caller.  *)
(***************************************************************************)
BurstIsBounded(delay) ==
  burst <= Full + Unit * returned + Rate * (setBack + delay)

(***************************************************************************)
(* The waits announced by refusals suffice: as long as nobody took a       *)
(* token since, the bucket has one for a caller at an announced time.      *)
(***************************************************************************)
BucketWaitSuffices(clock) ==
  \A t \in bucketWaits : HasToken(t, clock)

=============================================================================
