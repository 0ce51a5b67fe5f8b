------------------------ MODULE MCExeServiceRefines ------------------------
(* The constants of MCExeService for the refinement of ScriptEngine. *)
EXTENDS MCExeService, ExeServiceRefines
=============================================================================
