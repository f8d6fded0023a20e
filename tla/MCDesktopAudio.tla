---------------------------- MODULE MCDesktopAudio ----------------------------
(* An interface, and a microphone and speakers of Windows'.                  *)
EXTENDS DesktopAudio

SizesOffered == 1 :> {64, 128} @@ 3 :> {128}
SizePreferred == 1 :> 64 @@ 3 :> 128
=============================================================================
