------------------------------ MODULE MCRestart ------------------------------
(***************************************************************************)
(* The two ways in which an agent goes and comes back, in one run: the hot *)
(* update and the reboot with proof.  They share no state; a behaviour is  *)
(* one of either, and the other stays as it began.  MCHotSwap.cfg and      *)
(* MCReboot.cfg check each of them alone.                                  *)
(***************************************************************************)
EXTENDS HotSwap

CONSTANTS Client, Job, MaxMishaps     \* of the reboot

VARIABLES
  part,        \* which of the two runs
  machine_up, agent_up, counter, token, boot, pending, handler, client, kind, job, old_boot,
  past, mishaps

reboot == <<machine_up, agent_up, counter, token, boot, pending, handler, client, kind, job,
            old_boot, past, mishaps>>

Reboot == INSTANCE RebootProof

RestartInit == part \in {"swap", "reboot"} /\ Init /\ Reboot!Init /\ (part = "reboot" => ~nt)

RestartNext ==
  \/ part = "swap"   /\ Next        /\ UNCHANGED <<part, reboot>>
  \/ part = "reboot" /\ Reboot!Next /\ UNCHANGED <<part, vars>>

\* The fairness of the one that runs.
RestartFairness ==
  /\ \A p \in Proc :
       /\ WF_vars(part = "swap" /\ (AgentRuns(p) \/ SwapperRuns(p)))
       /\ SF_vars(part = "swap" /\ (Rename(p) \/ RenameExpires(p)))
  /\ WF_reboot(part = "reboot" /\ Reboot!Starts)
  /\ \A c \in Client :
       /\ WF_reboot(part = "reboot" /\ Reboot!Handles(c))
       /\ WF_reboot(part = "reboot" /\ Reboot!Poll(c))

RestartSpec == RestartInit /\ [][RestartNext]_<<vars, reboot, part>> /\ RestartFairness

-----------------------------------------------------------------------------
\* The types of both.
TypesOK == TypeOK /\ Reboot!TypeOK

\* What a client takes for proof of its reboot means that the agent it spoke to has
\* ended since, with the machine or alone, and that the counter has grown (power.c, and
\* wait_for_reboot of the clients).
ProofIsSound == Reboot!ProofIsSound

\* An accepted request's client has its proof in the end, but for what RebootProof
\* names (power.c, agent.c).
ProofComes == Reboot!ProofComes
=============================================================================
