------------------------------ MODULE MCPlugin ------------------------------
(***************************************************************************)
(* Instances of the SourceMod side for TLC, and a statement of the         *)
(* repository's docs that it does not live up to.                          *)
(***************************************************************************)
EXTENDS SynapiPlugin

(* synapi.inc:23, synapi_free(): "Call this on plugin end, frees up resources
   being used".  After the plugin's end the extension's frames go on without
   touching what was freed. *)
FrameUsesLiveHandle == fault # "freed handle"
=============================================================================
