---------------------------- MODULE MCAuthService ----------------------------
(***************************************************************************)
(* Values for TLC: the group of order 3 modulo 7, generated by 2, texts    *)
(* that denote its elements, the fake key, and two texts that are not what *)
(* they look like: "01" denotes 1 but hashes differently, "zz" denotes     *)
(* nothing.                                                                *)
(***************************************************************************)
EXTENDS AuthProperties, TLC

CONSTANTS r1, r2, c1, v1, v2

MCTexts == {"0000", "1", "01", "2", "4", "zz"}

MCValueOf ==
  [t \in MCTexts |-> CASE t = "0000" -> 0 [] t \in {"1", "01"} -> 1
                       [] t = "2" -> 2 [] t = "4" -> 4 [] t = "zz" -> NotHex]

(* Digests of a fake key are 1, all others 2.                              *)
MCDigestValue(d) == IF d[2] = "0000" THEN 1 ELSE 2

Reg(u, y)         == [username |-> u, publicKeyY |-> y, salt |-> "salt"]
Chal(u, r)        == [username |-> u, clientR |-> r]
Ver(c, s, r, u)   == [challengeId |-> c, s |-> s, clientR |-> r, username |-> u]

(***************************************************************************)
(* The race: two people register alice, with the keys 2 (secret 1) and 4   *)
(* (secret 2).  The challenge has the commitment 1 (nonce 0): its digest   *)
(* is 2 for either key, and the answer is 2 with secret 1, 1 with secret 2 *)
(***************************************************************************)
RaceRegisters  == {Reg("alice", "2"), Reg("alice", "4")}
RaceChallenges == {Chal("alice", "1")}
RaceVerifies   == {Ver(c1, "2", "1", "alice"), Ver(c1, "1", "1", "alice")}

(***************************************************************************)
(* Everything a request can get wrong: an empty field, a text that is not  *)
(* a number, another text of the same number, the challenge of another     *)
(* user, a key equal to the fake one.                                      *)
(***************************************************************************)
MixRegisters  == {Reg(u, y) : u \in {"alice", "bob"}, y \in {"2", "zz", "0000"}}
                 \cup {[Reg("bob", "2") EXCEPT !.salt = Blank]}
MixChallenges == {Chal("alice", r) : r \in {"1", "zz", "0000", Blank}}
                 \cup {Chal("bob", "1")}
MixVerifies   == {Ver(c1, s, r, "alice") : s \in {"0000", "1", "2", "zz", Blank},
                                           r \in {"1", "01", "zz"}}
                 \cup {Ver(c1, "2", "1", "bob"), Ver(Blank, "2", "1", "alice")}

(***************************************************************************)
(* One user, one challenge, and verify requests that all carry its id.     *)
(***************************************************************************)
ReplayRegisters  == {Reg("alice", "2")}
ReplayChallenges == {Chal("alice", "1")}
RightAnswer      == {Ver(c1, "2", "1", "alice")}
(* A right and a wrong answer.                                             *)
OneChallengeVerifies == {Ver(c1, "2", "1", "alice"), Ver(c1, "1", "1", "alice")}

ReplaySymmetry == Permutations({v1, v2})
RaceSymmetry   == Permutations({r1, r2}) \cup Permutations({v1, v2})

=============================================================================
