---------------------------- MODULE MCReporting ----------------------------
(***************************************************************************)
(* Two requests at a time on a pool of two connections.  A behaviour has   *)
(* one focus: batches under a moving clock, an emitter that fills up and   *)
(* closes, refusals under changing preferences, or refusals and the        *)
(* callbacks of their mail.                                                *)
(***************************************************************************)
EXTENDS Reporting

VARIABLE focus

MCEditable == {<<"cap_reached", "webhook">>}

MCArrivals == CASE focus = "batches" -> 3 [] focus = "emitter" -> 2
                [] focus = "refusals" -> 2 [] focus = "mail" -> 4

InFocus ==
    LET kinds == {request'[r].kind : r \in Requests}
    IN  \/ focus = "batches" /\ kinds \subseteq {"none", "ingest"}
                             /\ UNCHANGED << prefs, life >>
                             /\ emitter'.closed = "no" /\ emitter'.buffer <= 1
        \/ focus = "emitter" /\ kinds \subseteq {"none", "ingest"} /\ UNCHANGED << prefs, now >>
        \/ focus = "refusals" /\ kinds \subseteq {"none", "refusal"} /\ UNCHANGED << emitter, now >>
        \/ focus = "mail" /\ kinds \subseteq {"none", "refusal", "callback"}
                          /\ UNCHANGED << emitter, prefs, now, life >>

\* The customer has turned every channel off where a focus is not about them,
\* and every channel but mail where it is about mail.
Enabled == CASE focus = "batches" -> {} [] focus = "mail" -> {<<"cap_reached", "email">>}
             [] OTHER -> Defaults

MCInit == /\ focus \in {"batches", "emitter", "refusals", "mail"}
          /\ ReportingInitWith(Enabled)

MCNext == ReportingNext /\ InFocus /\ arrivals' <= MCArrivals /\ UNCHANGED focus
mcVars == << reportVars, focus >>

MCSpec == /\ MCInit /\ [][MCNext]_mcVars
          /\ \A r \in Requests : WF_reportVars(RunsOn(r))
=============================================================================
