-------------------------- MODULE MCDesktopBridge --------------------------
(* Small instances of DesktopBridge for TLC. *)
EXTENDS DesktopBridge

=============================================================================
