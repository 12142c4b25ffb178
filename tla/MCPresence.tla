---------------------------- MODULE MCPresence ----------------------------
(***************************************************************************)
(* Two workers and two devices.  The first dial is d1's on w1; the second  *)
(* is a redial on either worker or the other device's, which up to the     *)
(* names of workers and devices is every pair of dials.                    *)
(***************************************************************************)
EXTENDS Presence
CONSTANTS w1, w2, d1, d2
TwoDials == (1 :> {<<w1, d1>>}) @@ (2 :> {<<w1, d1>>, <<w1, d2>>, <<w2, d1>>, <<w2, d2>>})
SomeKicks == {<<w2, d1>>, All}
=============================================================================
