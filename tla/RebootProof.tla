----------------------------- MODULE RebootProof ------------------------------
(***************************************************************************)
(* Reboot with proof: the power and update requests of the agent           *)
(* (src/guest/power.c, reset.c, update.c), what survives the machine       *)
(* (BOOT.DAT, PENDING.DAT), the agent's start (agent.c), and the clients   *)
(* that wait for the machine to come back with a new boot counter and      *)
(* their own resume token (mcp/v9x_mcp.py, scripts/v9xctl.ps1).            *)
(*                                                                         *)
(* The agent serves each connection on a thread of its own, so the steps   *)
(* of two requests mix; nothing locks the token, in memory or on disk.     *)
(***************************************************************************)
EXTENDS Naturals

CONSTANTS
  Client,       \* clients, one request each
  Job,          \* the resume tokens they may choose
  MaxMishaps    \* bound on failing calls, restarts and power cuts

NoJob == "none"

VARIABLES
  machine_up, agent_up,
  counter, token,       \* BOOT.DAT and PENDING.DAT
  boot, pending,        \* boot_counter and pending_job in the agent's memory
  handler,              \* where a client's request is in the agent
  client, kind, job, old_boot,
  past,                 \* per client: what has happened since its token was stored
  mishaps

disk   == <<counter, token>>
memory == <<boot, pending>>
asked  == <<kind, job, old_boot>>
vars == <<machine_up, agent_up, disk, memory, handler, client, asked, past,
          mishaps>>

\* A reset is a reboot by other means.
Power == {"reboot", "shutdown"}
Kind  == Power \cup {"update"}

Init ==
  /\ machine_up = TRUE /\ agent_up = TRUE
  /\ counter = 1 /\ boot = 1
  /\ token = NoJob /\ pending = NoJob
  /\ handler = [c \in Client |-> "none"]
  /\ client = [c \in Client |-> "idle"]
  /\ kind = [c \in Client |-> "reboot"] /\ job = [c \in Client |-> NoJob]
  /\ old_boot = [c \in Client |-> 0]
  /\ past = [c \in Client |-> {}]
  /\ mishaps = 0

Mishap == mishaps < MaxMishaps /\ mishaps' = mishaps + 1

At(c, pc) == agent_up /\ handler[c] = pc
Goto(c, pc) == handler' = [handler EXCEPT ![c] = pc]
Becomes(c, s) == client' = [client EXCEPT ![c] = s]
Remember(cs, what) == past' = [c \in Client |-> IF c \in cs THEN past[c] \cup {what}
                                                ELSE past[c]]
Stored == {c \in Client : client[c] = "accepted" \/ handler[c] \in {"publish", "accept", "leave"}}

-----------------------------------------------------------------------------
(* The agent: v9x_handle_power_message and v9x_handle_update. *)

\* A client reads the boot counter in HELLO, then sends its request.
Request(c) == \E k \in Kind, j \in Job :
  /\ client[c] = "idle" /\ agent_up
  /\ Becomes(c, "sent") /\ Goto(c, "check")
  /\ kind' = [kind EXCEPT ![c] = k] /\ job' = [job EXCEPT ![c] = j]
  /\ old_boot' = [old_boot EXCEPT ![c] = boot]
  /\ UNCHANGED <<machine_up, agent_up, disk, memory, past, mishaps>>

Refuse(c) == Goto(c, "none") /\ Becomes(c, "refused")

\* An execution is active, reset on Windows NT, no shutdown privilege, a staged
\* file that does not verify.
Refused(c) ==
  /\ At(c, "check") /\ Refuse(c)
  /\ Mishap
  /\ UNCHANGED <<machine_up, agent_up, disk, memory, asked, past>>

\* An update starts the swapper and answers at once.
Check(c) ==
  /\ At(c, "check")
  /\ Goto(c, IF kind[c] = "update" THEN "accept" ELSE "persist")
  /\ UNCHANGED <<machine_up, agent_up, disk, memory, client, asked, past,
                 mishaps>>

\* v9x_persist_job: PENDING.DAT is truncated, then written and flushed.
Truncate(c) ==
  /\ At(c, "persist") /\ Goto(c, "write")
  /\ token' = NoJob
  /\ Remember(Stored, "overwritten")
  /\ UNCHANGED <<machine_up, agent_up, counter, memory, client, asked, mishaps>>

\* Mutant: the token is left to the cache, and an earlier one on the disk.
WriteLater(c) ==
  /\ At(c, "write") /\ Goto(c, "publish")
  /\ UNCHANGED <<machine_up, agent_up, counter, token, memory, client, asked,
                 past, mishaps>>

Write(c) ==
  /\ At(c, "write") /\ Goto(c, "publish")
  /\ token' = job[c]
  /\ past' = [d \in Client |-> IF d = c THEN past[d] \cap {"uncounted"}
                               ELSE IF d \in Stored THEN past[d] \cup {"overwritten"} ELSE past[d]]
  /\ UNCHANGED <<machine_up, agent_up, counter, memory, client, asked, mishaps>>

WriteFails(c) ==
  /\ handler[c] \in {"persist", "write"} /\ agent_up /\ Mishap
  /\ Refuse(c)
  /\ UNCHANGED <<machine_up, agent_up, disk, memory, asked, past>>

Publish(c) ==
  /\ At(c, "publish") /\ Goto(c, "accept")
  /\ pending' = job[c]
  /\ UNCHANGED <<machine_up, agent_up, disk, boot, client, asked, past, mishaps>>

\* The answer arrives; or it is sent and lost; or it cannot be sent, and then
\* the machine stays up, with the token stored.
Accept(c) ==
  /\ At(c, "accept")
  /\ \/ Goto(c, "leave") /\ Becomes(c, "accepted") /\ UNCHANGED mishaps
     \/ Goto(c, "leave") /\ Becomes(c, "lost") /\ Mishap
     \/ Goto(c, "none")  /\ Becomes(c, "lost") /\ Mishap
  /\ past' = [past EXCEPT ![c] = IF kind[c] = "update" THEN @ \cap {"uncounted"} ELSE @]
  /\ UNCHANGED <<machine_up, agent_up, disk, memory, asked>>

\* What ends with the agent: its handlers, and the connections of clients.
AgentEnds ==
  /\ agent_up' = FALSE
  /\ handler' = [c \in Client |-> "none"]
  /\ client' = [c \in Client |-> IF client[c] = "sent" THEN "lost" ELSE client[c]]

GoesDown == machine_up' = FALSE /\ AgentEnds /\ Remember(Client, "down")

\* ExitWindowsEx or the reset of reset.c, 250 ms after the answer.  An EXEC of
\* another connection that began after the check ends with it.
Leave(c) ==
  /\ At(c, "leave") /\ kind[c] \in Power
  /\ GoesDown
  /\ UNCHANGED <<disk, memory, asked, mishaps>>

\* It does not work: the failure is logged and the agent carries on.
LeaveFails(c) ==
  /\ At(c, "leave") /\ kind[c] \in Power /\ Mishap
  /\ Goto(c, "none") /\ Remember({c}, "failed")
  /\ UNCHANGED <<machine_up, agent_up, disk, memory, client, asked>>

\* After an update the agent exits, and the swapper starts the next one.
LeaveForUpdate(c) ==
  /\ At(c, "leave") /\ kind[c] = "update"
  /\ AgentEnds /\ Remember(Client, "restart")
  /\ UNCHANGED <<machine_up, disk, memory, asked, mishaps>>

-----------------------------------------------------------------------------
(* The machine and the agent's start. *)

PowerCut ==
  /\ machine_up /\ Mishap /\ GoesDown
  /\ UNCHANGED <<disk, memory, asked>>

\* Restart on the tray, or an agent that failed and was started by hand.
Restart ==
  /\ agent_up /\ Mishap /\ AgentEnds
  /\ Remember(Client, "restart")
  /\ UNCHANGED <<machine_up, disk, memory, asked>>

MachineStarts ==
  /\ ~machine_up /\ machine_up' = TRUE
  /\ UNCHANGED <<agent_up, disk, memory, handler, client, asked, past, mishaps>>

\* v9x_increment_boot_counter: 0 when BOOT.DAT cannot be opened, and a counter
\* that is not kept when it cannot be written.
Counts ==
  \/ counter' = counter + 1 /\ boot' = counter' /\ UNCHANGED <<mishaps, past>>
  \/ Mishap /\ Remember(Client, "uncounted")
     /\ UNCHANGED counter /\ boot' \in {0, counter + 1}

\* Mutant: the token is dropped as soon as it was read.
AgentStartsOnce ==
  /\ machine_up /\ ~agent_up /\ agent_up' = TRUE
  /\ Counts /\ pending' = NoJob
  /\ UNCHANGED <<machine_up, token, handler, client, asked>>

AgentStarts ==
  /\ machine_up /\ ~agent_up /\ agent_up' = TRUE
  /\ Counts /\ pending' = token
  /\ UNCHANGED <<machine_up, token, handler, client, asked>>

-----------------------------------------------------------------------------
(* The client: wait_for_reboot, wait_for_update. *)

\* Mutant: the token alone is proof.
ProofByToken(c) == kind[c] = "update" \/ pending = job[c]

Proof(c) == boot # old_boot[c] /\ (kind[c] = "update" \/ pending = job[c])

Poll(c) ==
  /\ client[c] = "accepted" /\ kind[c] # "shutdown" /\ agent_up /\ Proof(c)
  /\ Becomes(c, "proved")
  /\ UNCHANGED <<machine_up, agent_up, disk, memory, handler, asked, past,
                 mishaps>>

Deadline(c) ==
  /\ client[c] = "accepted" /\ Mishap
  /\ Becomes(c, "expired")
  /\ UNCHANGED <<machine_up, agent_up, disk, memory, handler, asked, past>>

-----------------------------------------------------------------------------
Handles(c) == \/ Refused(c) \/ Check(c) \/ Truncate(c) \/ Write(c) \/ Publish(c)
              \/ Accept(c) \/ Leave(c) \/ LeaveForUpdate(c)
Starts == MachineStarts \/ AgentStarts

Next ==
  \/ \E c \in Client : \/ Request(c) \/ Handles(c) \/ Poll(c) \/ Deadline(c)
                       \/ WriteFails(c) \/ LeaveFails(c)
  \/ Starts \/ PowerCut \/ Restart

Spec == Init /\ [][Next]_vars

\* Requests are served, a machine that was not shut down for good comes back,
\* and a client goes on asking.
FairSpec == Spec /\ WF_vars(Starts) /\ \A c \in Client : WF_vars(Handles(c)) /\ WF_vars(Poll(c))

-----------------------------------------------------------------------------
TypeOK ==
  /\ {machine_up, agent_up} \subseteq BOOLEAN /\ (agent_up => machine_up)
  /\ {counter, boot} \subseteq Nat /\ {token, pending} \subseteq Job \cup {NoJob}
  /\ handler \in [Client -> {"none", "check", "persist", "write", "publish", "accept", "leave"}]
  /\ client \in [Client -> {"idle", "sent", "refused", "accepted", "lost", "proved", "expired"}]
  /\ kind \in [Client -> Kind] /\ job \in [Client -> Job \cup {NoJob}]
  /\ old_boot \in [Client -> Nat] /\ mishaps \in 0 .. MaxMishaps
  /\ past \in [Client -> SUBSET {"down", "restart", "failed", "overwritten", "uncounted"}]

\* ProofIsSound: a client is told that the machine has rebooted only if, since its
\* own token was stored, the agent it spoke to has ended: with the machine, or because
\* the agent alone was restarted.  An old token, or its own from before, is no proof.
\* And a counter that differs is a larger one, as long as BOOT.DAT could be kept.
ProofIsSound == \A c \in Client :
  client[c] = "proved" =>
    /\ past[c] \cap {"down", "restart"} # {}
    /\ boot > old_boot[c] \/ "uncounted" \in past[c]

\* docs/ai-workflows.md:104-107: of a reboot "Success requires all three: a fresh
\* connection, a strictly increased boot counter, and the exact token echoed back from
\* disk.  A hung guest, a crashed boot, or a VM that never went down all fail this check".
\* It is broken: the token is on the disk before the machine leaves, and any start of the
\* agent changes the counter.
WentDown == \A c \in Client :
  client[c] = "proved" /\ kind[c] \in Power => "down" \in past[c]

\* ProofComes: a client whose request was accepted, and worked, gets its proof,
\* though the machine may be cut off at any point from then on; unless another
\* request takes the token's place or the counter cannot be kept.
ProofComes == \A c \in Client :
  client[c] = "accepted" /\ kind[c] # "shutdown" ~>
    client[c] # "accepted" \/ past[c] \cap {"overwritten", "uncounted", "failed"} # {}
=============================================================================
