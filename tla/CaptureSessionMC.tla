-------------------------- MODULE CaptureSessionMC --------------------------
(* CaptureSession on small instances.                                         *)
EXTENDS CaptureSession

\* A capture in real time to a temporary file, without faults.
Plain == [real_time_mode |-> TRUE, prefs |-> {}, multi_files_on |-> FALSE,
          named |-> FALSE, extcap |-> FALSE, passthrough |-> FALSE, ask_unsaved |-> FALSE,
          faults |-> {}]

\* One capture mode and what may go wrong in it at a time; real time mode may be
\* switched off during the capture.
MCConfigs ==
    {[Plain EXCEPT !.faults = {"start", "crash", "fork"}, !.prefs = {FALSE}],
     [Plain EXCEPT !.named = TRUE, !.faults = {"open"}, !.real_time_mode = FALSE],
     [Plain EXCEPT !.named = TRUE, !.multi_files_on = TRUE, !.faults = {"open"}],
     [Plain EXCEPT !.named = TRUE, !.multi_files_on = TRUE, !.prefs = {FALSE}],
     [Plain EXCEPT !.extcap = TRUE, !.faults = {"crash"}],
     [Plain EXCEPT !.extcap = TRUE, !.passthrough = TRUE],
     [Plain EXCEPT !.named = TRUE, !.multi_files_on = TRUE, !.passthrough = TRUE],
     [Plain EXCEPT !.ask_unsaved = TRUE, !.prefs = {FALSE}]}

\* Captures from a source that is passed through.
MCPassthrough == {[Plain EXCEPT !.passthrough = TRUE]}

\* Captures to a file the user named.
MCNamed == {[Plain EXCEPT !.named = TRUE]}

=============================================================================
