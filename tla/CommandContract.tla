--------------------------- MODULE CommandContract ---------------------------
(***************************************************************************)
(* What a client may rely on when it sends a command under a key: the      *)
(* command takes effect in one instant, once under its key however often   *)
(* it is sent, and only on the version the client named; and what the      *)
(* client is answered is so in the instant of the answer.  "Replayed" says *)
(* that a command with this key and body took effect, not that it was on   *)
(* the path of the request: the body need not name what the path does.     *)
(* There are no look-ups, locks, constraints or transactions here.         *)
(***************************************************************************)
EXTENDS Naturals

CONSTANT Requests

VARIABLES
  version,    \* of what the commands change
  done,       \* the commands that took effect, each an id with a body
  asked,      \* what each request asks for: [id, body, seen]
  answer,     \* and what it was answered
  keyFirst    \* a repeat is recognised whatever version it names

vars == <<version, done, asked, answer, keyFirst>>

Command(q) == [id |-> asked[q].id, body |-> asked[q].body]
Prior(q) == {d \in done : d.id = asked[q].id}
Current(q) == asked[q].seen \in {0, version}     \* 0: no version was named

Init ==
  /\ version = 1 /\ done = {}
  /\ \A q \in Requests : answer[q] = "unsent"
  /\ keyFirst \in BOOLEAN

(* Any command may be sent, and sent again.                                *)
Send(q) ==
  /\ answer[q] = "unsent" /\ answer'[q] = "pending"
  /\ \A p \in Requests \ {q} : asked'[p] = asked[p]
  /\ UNCHANGED <<version, done, keyFirst>>

TakeEffect(q) ==
  /\ answer'[q] = "ok"
  /\ Prior(q) = {} /\ Current(q)
  /\ version' = version + 1
  /\ done' = done \cup {Command(q)}

Replay(q) == answer'[q] = "replayed" /\ Command(q) \in done
Conflict(q) == answer'[q] = "key_conflict" /\ Prior(q) # {} /\ Command(q) \notin done
Stale(q) == answer'[q] = "version" /\ ~Current(q) /\ (keyFirst => Prior(q) = {})

(* A refusal by the rules of the command, and a failure without a trace.   *)
Refuse(q) == answer'[q] \in {"refused", "error"}

(* An answer is given in the instant that decides it.                      *)
Reply(q) ==
  /\ answer[q] = "pending" /\ answer'[q] # "pending"
  /\ UNCHANGED <<asked, keyFirst>>
  /\ \/ TakeEffect(q)
     \/ (Replay(q) \/ Conflict(q) \/ Stale(q) \/ Refuse(q)) /\ UNCHANGED <<version, done>>

(* A command takes effect on what this version does not count.             *)
Elsewhere(d) ==
  /\ d \notin done /\ \A p \in done : p.id # d.id
  /\ done' = done \cup {d}
  /\ UNCHANGED <<version, asked, answer, keyFirst>>

Next ==
  \/ \E q \in Requests :
       /\ Send(q) \/ Reply(q)
       /\ \A p \in Requests \ {q} : answer'[p] = answer[p]
  \/ \E d \in done' : Elsewhere(d)

Spec == Init /\ [][Next]_vars
=============================================================================
