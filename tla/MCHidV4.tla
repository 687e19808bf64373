------------------------------- MODULE MCHidV4 -------------------------------
(***************************************************************************)
(* Two descriptors and three messages, which are interchangeable, with the *)
(* ioctls that move data; or one descriptor and every kind of ioctl.       *)
(***************************************************************************)
EXTENDS HidV4, TLC

CONSTANTS f1, f2, i1, i2, i3

TwoFds == {f1, f2}
OneFd == {f1}
ThreeIds == {i1, i2, i3}
Symmetry == Permutations(TwoFds) \cup Permutations(ThreeIds)
FewKinds == {"version", "command", "read", "cancel"}
=============================================================================
