------------------------------ MODULE MCQaTwoPass ------------------------------
(***************************************************************************)
(* Invocations for TLC.  Each family varies what its provider looks at.    *)
(***************************************************************************)
EXTENDS QaTwoPass

Plain == [cmd |-> "ask", requested |-> "auto", shut |-> {}, failOpen |-> TRUE, hmac |-> "off",
          clean |-> TRUE, backend |-> [explicit |-> "", older |-> ""], runtime |-> "auto",
          package |-> FALSE, path |-> "none", pr |-> FALSE, llm |-> {"issue", "policy"}]

\* The remote may be reached: every command, policy and signature setting.
RemoteInvocations ==
  {[Plain EXCEPT !.cmd = c, !.requested = r, !.failOpen = open, !.hmac = h, !.clean = clean] :
     c \in Commands, r \in {"remote", "auto"}, open \in BOOLEAN, h \in {"off", "noSecret"},
     clean \in BOOLEAN}

\* The remote is shut off, or the baseline is asked for.
BaselineInvocations ==
  {[Plain EXCEPT !.cmd = c, !.shut = shut, !.llm = l, !.pr = pr] :
     c \in Commands, shut \in {{"enabled"}, {"command", "repo"}}, l \in SUBSET {"issue", "policy", "locate"},
     pr \in BOOLEAN}
  \cup {[Plain EXCEPT !.cmd = c, !.requested = "baseline"] : c \in Commands}

\* The local engine: where the runtime comes from.
LocalInvocations ==
  {[Plain EXCEPT !.cmd = c, !.requested = "local", !.runtime = m, !.package = k, !.path = q] :
     c \in {"ask", "locate"}, m \in RuntimeModes, k \in BOOLEAN, q \in {"none", "missing", "empty", "module"}}
  \cup {[Plain EXCEPT !.requested = "local", !.package = TRUE, !.backend = [explicit |-> b, older |-> o]] :
          b \in Backends, o \in Backends}

MCInvocations == RemoteInvocations \cup BaselineInvocations \cup LocalInvocations
=============================================================================
