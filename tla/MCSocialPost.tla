---------------------------- MODULE MCSocialPost ----------------------------
(* The instances of SocialPost that TLC explores.  Times are only compared *)
(* for equality and sessions are alike, so both are symmetric; no run that *)
(* checks a liveness property uses the symmetry.                           *)
EXTENDS SocialPost, TLC

Symmetry == Permutations(Times) \cup Permutations(Sessions)

(* In the liveness run, which cannot use the symmetry, a write takes the   *)
(* least fresh time: every step this excludes differs from one it keeps    *)
(* only in the name of the version.                                        *)
LeastTime ==
  post' # NoPost /\ post' # post
    => \A t \in IF post = NoPost THEN Times ELSE FreshTimes : post'.updated_at <= t
=============================================================================
