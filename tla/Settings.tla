------------------------------ MODULE Settings ------------------------------
(***************************************************************************)
(* What the server makes of the numbers in application.yaml, where a       *)
(* number that is missing reads as 0, and nothing rejects a negative one:  *)
(* resolveBucketConfig and buildAuditPublisher (cmd/server/main.go), and   *)
(* the constructors of the limiters and of the audit queue.  Two numbers   *)
(* have no such default and are used as they are: challenge_ttl_seconds    *)
(* and expire_seconds.                                                     *)
(*                                                                         *)
(* A token has sixty shares, so that requests per minute are shares per    *)
(* second; floating point numbers are idealised as exact.                  *)
(***************************************************************************)
EXTENDS Integers

Share == 60

Routes == {"register", "challenge", "verify"}

Config == [BucketCapacity     : Int,
           BucketRefillPerSec : Int,
           PerMinute          : [Routes -> Int],
           AsyncQueueSize     : Int]

Positive(n, default) == IF n > 0 THEN n ELSE default
AtLeast(n, least)    == IF n >= least THEN n ELSE least

(* resolveBucketConfig: shares per second, and tokens of a full bucket.    *)
Refill(cfg, route) ==
  IF cfg.BucketRefillPerSec > 0 THEN cfg.BucketRefillPerSec * Share
                                ELSE AtLeast(cfg.PerMinute[route], Share)

Capacity(cfg, route) ==
  IF cfg.BucketCapacity > 0 THEN cfg.BucketCapacity
                            ELSE AtLeast((Refill(cfg, route) * 10) \div Share, 10)

(* NewTokenBucketLimiter, as MultiLayerRateLimitMiddleware calls it.       *)
Bucket(cfg, route) ==
  [capacity |-> Positive(Capacity(cfg, route), 10),
   rate     |-> Positive(Refill(cfg, route), Share),
   ttl      |-> 60]

(* NewSlidingWindowLimiter, called for the same minute.                    *)
SlidingWindow(cfg, route) ==
  [limit |-> Positive(cfg.PerMinute[route], 60), window |-> 60]

(* buildAuditPublisher, and NewAsyncPublisher again.                       *)
QueueSize(cfg) == Positive(Positive(cfg.AsyncQueueSize, 1000), 1000)

-----------------------------------------------------------------------------

(***************************************************************************)
(* DelayAssumption of RateLimiter, for calls up to delay seconds late: the *)
(* window outlives a call, the bucket the two calls between the taking and *)
(* the giving back of a token, and a full bucket is refilled before an     *)
(* unused one is forgotten (otherwise a client that waits out the minute   *)
(* gets a full bucket that was not refilled).                              *)
(***************************************************************************)
ToleratesDelay(bucket, window, delay) ==
  /\ delay < window.window
  /\ 2 * delay < bucket.ttl
  /\ bucket.capacity * Share <= bucket.rate * (bucket.ttl - delay)

=============================================================================
