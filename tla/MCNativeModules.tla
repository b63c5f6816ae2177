--------------------------- MODULE MCNativeModules ---------------------------
(* Small instances of NativeModules. *)
EXTENDS NativeModules
=============================================================================
