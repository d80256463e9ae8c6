-------------------------- MODULE EditorComponent --------------------------
(***************************************************************************)
(* The life of AiCompanionEditorSystemComponent.cpp: Activate resolves the *)
(* server's configuration, starts the server and the timer that drains its *)
(* queue, and every second of ticks the component reads the agent mode     *)
(* file, installs or removes the dialog filter (AgentMode/                 *)
(* AgentModeFilter.cpp) and writes down what it has applied.  The editor   *)
(* may crash at any time; the files outlive it.                            *)
(***************************************************************************)
EXTENDS AgentModeState

CONSTANTS Toggle,         \* what set_agent_mode is called with
          Configuration   \* settings and environments an editor is started with

Absent == << >>
Port   == 0..65535
Option == {"Enabled", "Port", "SecureMode", "TlsEnabled", "TlsFiles"}

\* Where an option is set: in the settings registry, in the environment.
ASSUME Configured == \A c \in Configuration :
    /\ DOMAIN c = {"settings", "environment"}
    /\ \A source \in {"settings", "environment"} :
          /\ DOMAIN c[source] \subseteq Option
          /\ \A o \in DOMAIN c[source] : c[source][o] \in IF o = "Port" THEN Int ELSE BOOLEAN
ASSUME Toggles == Toggle \subseteq BOOLEAN \X BOOLEAN

VARIABLES editor,    \* the configuration of the editor that is up, if one is
          gui,       \* whether it has a QApplication
          server,    \* the parameters its AgentServer runs with, if it runs
          pump,      \* whether the queue pump timer runs
          filter,    \* whether the dialog filter is installed
          due,       \* whether a second has passed since the last poll
          observed,  \* what a reader finds in the observed-state file, if anything
          box,       \* the dialog that is open, if one is
          told       \* history variable: this editor's last poll wrote that file

editorVars == <<editor, gui, server, pump, filter, due, observed, told, box>>
vars == <<fileVars, editorVars>>

Up == editor # Absent

-----------------------------------------------------------------------------
(* StartAgentServer and StartQueuePump.                                    *)

DefaultOf == [o \in Option |-> CASE o = "Enabled" -> TRUE [] o = "Port" -> 4600 [] OTHER -> FALSE]

\* Environment, else settings, else default.
Resolved(c, o) == IF o \in DOMAIN c.environment THEN c.environment[o]
                  ELSE IF o \in DOMAIN c.settings THEN c.settings[o]
                  ELSE DefaultOf[o]

\* Mutant of Parameters: the port is handed on as it was read.
WidePort(c) == [port   |-> Resolved(c, "Port"),
                secure |-> Resolved(c, "SecureMode"),
                tls    |-> Resolved(c, "TlsEnabled") /\ Resolved(c, "TlsFiles")]

\* The port is cut to 16 bits, and TLS without its files is no TLS.
Parameters(c) == [port   |-> Resolved(c, "Port") % 65536,
                  secure |-> Resolved(c, "SecureMode"),
                  tls    |-> Resolved(c, "TlsEnabled") /\ Resolved(c, "TlsFiles")]

\* A server that fails to start, its port taken say, is let go.
StartAgentServer(c) == IF ~Resolved(c, "Enabled") THEN {Absent} ELSE {<<Parameters(c)>>, Absent}

PumpStarts(running, app) == running # Absent /\ app

-----------------------------------------------------------------------------
(* RefreshAgentMode.                                                       *)

WantsFilter(s) == s.enabled /\ s.suppress_dialogs

\* Whether the filter is installed afterwards: it takes a QApplication.
Applied(s, has, app) == WantsFilter(s) /\ (has \/ app)

\* Mutant of Observation: what was wanted is reported as done.
ObserveWish(s, has, app) == <<[setting |-> s, filter_installed |-> WantsFilter(s)]>>

Observation(s, has, app) == <<[setting |-> s, filter_installed |-> Applied(s, has, app)]>>

\* The write replaces the file; or no file can be opened or renamed, and the
\* old one stays; or the disk is full, and what replaces it does not parse.
WriteObservedState(s, has, app) ==
    \/ observed' = Observation(s, has, app) /\ told' = TRUE
    \/ observed' \in {observed, Absent} /\ told' = FALSE

\* Nobody looks at the outcome of the write.
RefreshAgentMode(has, app) ==
    /\ filter' = Applied(LoadState, has, app)
    /\ WriteObservedState(LoadState, has, app)
    /\ due' = FALSE

Activate(c, app) ==
    /\ ~Up
    /\ editor' = <<c>> /\ gui' = app
    /\ \E running \in StartAgentServer(c) :
          /\ server' = running
          /\ pump' = PumpStarts(running, app)
    /\ RefreshAgentMode(FALSE, app)
    /\ UNCHANGED <<fileVars, box>>

Gone == /\ editor' = Absent /\ gui' = FALSE /\ server' = Absent
        /\ pump' = FALSE /\ filter' = FALSE /\ due' = FALSE /\ told' = FALSE
        /\ UNCHANGED <<fileVars, observed>>

\* The component leaves the observed-state file as it is.
Deactivate == Up /\ box = Absent /\ Gone /\ UNCHANGED box

Crash == Up /\ Gone /\ box' = Absent

\* A dialog has the main thread until it is closed.
OnSystemTick ==
    /\ Up /\ box = Absent /\ due
    /\ RefreshAgentMode(filter, gui)
    /\ UNCHANGED <<fileVars, editor, gui, server, pump, box>>

\* Mutant of PollIsDue: a file with the time stamp of the last poll is not read.
StampChanged == /\ Up /\ ~due /\ due' = TRUE
                /\ observed # Absent => LoadState.updated_at # observed[1].setting.updated_at
                /\ UNCHANGED <<fileVars, editor, gui, server, pump, filter, observed, told, box>>

PollIsDue == /\ Up /\ ~due /\ due' = TRUE
             /\ UNCHANGED <<fileVars, editor, gui, server, pump, filter, observed, told, box>>

-----------------------------------------------------------------------------
(* Dialogs.                                                                *)

\* The welcome dialog, message boxes with a title and without one, and what is
\* logged or not even looked at.
Dialog     == {"welcome", "message", "untitled", "passed"}
MessageBox == {"message", "untitled"}

\* What the filter closes: without a title it looks no further, and only then
\* comes the class.
Dismissed(kind) == kind \in {"welcome", "message"}

\* The filter sees a dialog when it is shown, and has it closed in the next
\* turn of the event loop.
BoxIsShown(kind) ==
    /\ Up /\ gui /\ box = Absent
    /\ box' = <<[kind |-> kind, seen |-> filter, closing |-> filter /\ Dismissed(kind)]>>
    /\ UNCHANGED <<fileVars, editor, gui, server, pump, filter, due, observed, told>>

CloseBox == box' = Absent /\ UNCHANGED <<fileVars, editor, gui, server, pump, filter, due, observed, told>>

BoxIsDismissed == box # Absent /\ box[1].closing /\ CloseBox
UserClosesBox  == box # Absent /\ CloseBox

-----------------------------------------------------------------------------
Init == /\ FilesInit
        /\ editor = Absent /\ gui = FALSE /\ server = Absent /\ pump = FALSE
        /\ filter = FALSE /\ due = FALSE /\ observed = Absent /\ told = FALSE /\ box = Absent

Next == \/ \E w \in Writer, t \in Toggle : SetAgentMode(w, t[1], t[2]) /\ UNCHANGED editorVars
        \/ \E w \in Writer : WriteText(w) /\ UNCHANGED editorVars
        \/ \E w \in Writer : Replace(w) /\ UNCHANGED editorVars
        \/ \E w \in Writer : SetFails(w) /\ UNCHANGED editorVars
        \/ SecondPasses /\ UNCHANGED editorVars
        \/ \E c \in Configuration, app \in BOOLEAN : Activate(c, app)
        \/ Deactivate \/ Crash
        \/ PollIsDue \/ OnSystemTick
        \/ \E kind \in Dialog : BoxIsShown(kind)
        \/ BoxIsDismissed \/ UserClosesBox

\* An editor that is up keeps ticking and turning its event loop; nothing says
\* that a user closes a dialog, that an editor is started or that a call ends.
Fairness == WF_vars(PollIsDue) /\ WF_vars(OnSystemTick) /\ WF_vars(BoxIsDismissed)

Spec     == Init /\ [][Next]_vars
FairSpec == Spec /\ Fairness

-----------------------------------------------------------------------------
TypeOK == /\ FilesTypeOK
          /\ editor = Absent \/ editor[1] \in Configuration
          /\ server = Absent \/ server[1] \in [port : Port, secure : BOOLEAN, tls : BOOLEAN]
          /\ gui \in BOOLEAN /\ pump \in BOOLEAN /\ filter \in BOOLEAN /\ due \in BOOLEAN
          /\ told \in BOOLEAN
          /\ observed = Absent \/ observed[1].setting \in Setting
          /\ box = Absent \/ box[1] \in [kind : Dialog, seen : BOOLEAN, closing : BOOLEAN]
          /\ ~Up => ~gui /\ ~due /\ ~filter /\ server = Absent /\ box = Absent
          /\ pump <=> server # Absent /\ gui

\* From a poll that wrote the observed-state file to the next one, the file
\* tells of the editor that is up, not of one before it, and what it says is
\* installed is installed: it may lag behind the state file, but never behind
\* the filter.  After a failed write it may be an older one, or unreadable.
ObservedIsApplied == told => /\ Up /\ observed # Absent
                             /\ observed[1].filter_installed = filter
                             /\ filter = (WantsFilter(observed[1].setting) /\ gui)

\* An editor that stays up without a dialog in its way comes to do what the
\* state file says in the end, whatever calls, failures and restarts came
\* before, and says so, if in the end its writes of the observed-state file
\* succeed.
Undisturbed == Up /\ box = Absent
FilterFollowsFile ==
    /\ <>[]Undisturbed => <>[](Up /\ filter = (WantsFilter(LoadState) /\ gui))
    /\ <>[](Undisturbed /\ told) => <>[](observed = <<[setting |-> LoadState, filter_installed |-> filter]>>)

\* A message box or welcome dialog that comes up under the filter is closed
\* without a user, though the mode be turned off meanwhile: "any other
\* `QMessageBox` is rejected" (Docs/agent-mode.md:40).
MessagesAreDismissed ==
    (box # Absent /\ box[1].seen /\ box[1].kind \in MessageBox \cup {"welcome"}) ~> box = Absent
=============================================================================
