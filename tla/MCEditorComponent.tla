------------------------- MODULE MCEditorComponent -------------------------
(***************************************************************************)
(* Two processes that turn the mode on and off, and editors started with   *)
(* an environment against their settings, with a server and without.       *)
(***************************************************************************)
EXTENDS EditorComponent, TLC

MCToggle == {<<TRUE, TRUE>>, <<FALSE, TRUE>>}

MCSettings == "SecureMode" :> TRUE @@ "Port" :> 70136 @@ "TlsEnabled" :> TRUE @@ "TlsFiles" :> TRUE

MCConfiguration ==
    {[settings |-> MCSettings, environment |-> e] :
        e \in {"SecureMode" :> FALSE @@ "TlsFiles" :> FALSE, "Enabled" :> FALSE}}
=============================================================================
