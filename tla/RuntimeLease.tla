----------------------------- MODULE RuntimeLease -----------------------------
(***************************************************************************)
(* RuntimeContext: what a process has of MPI and of OpenMP while it works. *)
(* The contexts of a process share one lease, made with the first of them  *)
(* and given up with the last.  Making it is collective: MPI is attached   *)
(* to or initialized, its errors are made to return, the ranks of a node   *)
(* compare the processors they may use, and each sizes its team of threads *)
(* for the part of the node that is its own.                               *)
(*                                                                         *)
(* The program around the library is external: it may have initialized MPI *)
(* before and may finalize it under a living context, it makes the same    *)
(* calls on every rank, and does so from one thread.  MPI's own calls      *)
(* succeed, except that it may offer no more than one thread.              *)
(*                                                                         *)
(* A definition marked "fault" is a plausible mistake in the definition    *)
(* that follows it; no action uses it.                                     *)
(***************************************************************************)
EXTENDS Integers, Sequences, FiniteSets, FiniteSetsExt

CONSTANTS Hosts,      \* the jobs and programs the library may find itself in
          Settings,   \* config::RuntimeParams: mpi_enabled and num_threads
          Slots       \* the contexts a program may hold at a time

VARIABLES host,       \* the job: see Hosts
          script,     \* the calls the program has made so far
          at,         \* at[r]: the call rank r is in, or makes next
          spot,       \* spot[r]: where it is inside that call
          mpi,        \* mpi[r]: fresh, live, finalizing or finalized
          handler,    \* handler[r]: the error handler of MPI_COMM_WORLD
          openmp,     \* openmp[r]: dynamic, levels and threads
          lease,      \* lease[r]: the State, or NoLease
          contexts,   \* contexts[r]: the slots that share it
          told,       \* told[k][r]: what r passed to the collectives of call k
          outcome     \* outcome[r]: how its last call ended

(* A job of at least one rank, its ranks numbered from 0; a rank may use   *)
(* some processor and OpenMP lets it have a thread; and what it presents   *)
(* to the others, complete or not, is something.                           *)
HostsAssumption ==
    \A h \in Hosts :
        /\ IsFiniteSet(h.ranks) /\ h.ranks # {}
        /\ h.ranks = 0 .. Cardinality(h.ranks) - 1
        /\ h.calls \in Nat /\ h.initialized \in BOOLEAN /\ h.funneled \in BOOLEAN
        /\ \A r \in h.ranks : /\ IsFiniteSet(h.mask[r]) /\ h.mask[r] # {}
                             /\ h.limit[r] \in Nat \ {0}
                             /\ h.identity[r] # "absent"
        /\ h.openmp \in [dynamic : BOOLEAN, levels : Nat, threads : Nat \ {0}]

SettingsAssumption == Settings \subseteq [mpi : BOOLEAN, threads : Nat]

ASSUME LeaseAssumption == HostsAssumption /\ SettingsAssumption

process == <<mpi, handler, openmp>>
leases == <<host, script, at, spot, process, lease, contexts, told, outcome>>

Job == host.ranks
Node(r) == {s \in Job : host.node[s] = host.node[r]}

NoLease == [setting |-> "none"]
Silent == [available |-> "absent", gathered |-> FALSE, started |-> "absent",
           identity |-> "absent"]

LeaseInit == /\ host \in Hosts
             /\ script = <<>>
             /\ at = [r \in Job |-> 1]
             /\ spot = [r \in Job |-> "call"]
             /\ mpi = [r \in Job |-> IF host.initialized THEN "live" ELSE "fresh"]
             /\ handler = [r \in Job |-> "host"]
             /\ openmp = [r \in Job |-> host.openmp]
             /\ lease = [r \in Job |-> NoLease]
             /\ contexts = [r \in Job |-> {}]
             /\ told = [k \in 1 .. host.calls |-> [r \in Job |-> Silent]]
             /\ outcome = [r \in Job |-> "none"]

-----------------------------------------------------------------------------
(* The program: what it may do next, which the first rank to get there     *)
(* decides for all.                                                        *)
Open(slot, setting) == [do |-> "open", slot |-> slot, setting |-> setting]
Close(slot) == [do |-> "close", slot |-> slot]
Agree == [do |-> "agree"]
FinalizeUnder == [do |-> "finalize"]

Calls(r) ==
    {Open(slot, setting) : slot \in Slots \ contexts[r],
                           setting \in {p \in Settings :
                                          p.mpi \/ Cardinality(Job) = 1}}
      \union {Close(slot) : slot \in contexts[r]}
      \union (IF contexts[r] # {} /\ (mpi[r] = "live" \/ Cardinality(Job) = 1)
                THEN {Agree} ELSE {})
      \union (IF host.initialized /\ mpi[r] = "live" THEN {FinalizeUnder} ELSE {})

Makes(r, call) ==
    /\ spot[r] = "call"
    /\ IF at[r] <= Len(script)
         THEN call = script[at[r]] /\ UNCHANGED script
         ELSE /\ at[r] <= host.calls
              /\ call \in Calls(r)
              /\ script' = Append(script, call)
    /\ UNCHANGED host

Ends(r, how) == /\ spot' = [spot EXCEPT ![r] = "call"]
                /\ at' = [at EXCEPT ![r] = @ + 1]
                /\ outcome' = [outcome EXCEPT ![r] = how]

Goes(r, place) == /\ spot' = [spot EXCEPT ![r] = place]
                  /\ UNCHANGED <<at, outcome>>

Tells(r, what) == told' = [told EXCEPT ![at[r]][r] = what]
Told(s, r) == told[at[r]][s]

-----------------------------------------------------------------------------
(* The team a rank asks for, and whether the policy lets it.               *)
Capacity(r) == Min({host.openmp.threads, Cardinality(host.mask[r]), host.limit[r]})

AutomaticCapacity(r, ceiling) ==
    IF ceiling > 0 THEN Min({Capacity(r), ceiling}) ELSE Capacity(r)

Team(r, setting, ceiling) ==
    IF setting.threads = 0 THEN AutomaticCapacity(r, ceiling) ELSE setting.threads

Admitted(r, setting) == setting.threads <= host.limit[r]

TeamOf(count) == [dynamic |-> FALSE, levels |-> 1, threads |-> count]

-----------------------------------------------------------------------------
(* release_mpi_noexcept after host_threads.reset: the threads first, then  *)
(* the handler, if MPI is still there, and MPI itself, if it is ours.      *)
Release(r, how) ==
    /\ openmp' = [openmp EXCEPT ![r] = IF lease[r].started THEN lease[r].before
                                                           ELSE @]
    /\ handler' = [handler EXCEPT ![r] = IF lease[r].setting.mpi /\ mpi[r] = "live"
                                           THEN lease[r].handler ELSE @]
    /\ lease' = [lease EXCEPT ![r] = NoLease]
    /\ IF lease[r].owns /\ mpi[r] = "live"
         THEN /\ mpi' = [mpi EXCEPT ![r] = "finalizing"]
              /\ spot' = [spot EXCEPT ![r] = "finalize"]
              /\ outcome' = [outcome EXCEPT ![r] = how]
              /\ UNCHANGED at
         ELSE Ends(r, how) /\ UNCHANGED mpi

(* MPI_Finalize is collective.                                             *)
Finalized(r) ==
    /\ spot[r] = "finalize"
    /\ \A s \in Job : mpi[s] \in {"finalizing", "finalized"}
    /\ mpi' = [mpi EXCEPT ![r] = "finalized"]
    /\ Ends(r, outcome[r])
    /\ UNCHANGED <<host, script, handler, openmp, lease, contexts, told>>

-----------------------------------------------------------------------------
(* RuntimeContext::RuntimeContext with a lease in the process.             *)
Share(r, slot, setting) ==
    /\ Makes(r, Open(slot, setting))
    /\ lease[r] # NoLease
    /\ contexts' = [contexts EXCEPT ![r] =
                      IF lease[r].setting = setting THEN @ \union {slot} ELSE @]
    /\ Ends(r, IF lease[r].setting = setting THEN "ok" ELSE "threw")
    /\ UNCHANGED <<process, lease, told>>

(* State without MPI: a team, or a refusal, or a team of another size      *)
(* whose settings are undone.                                              *)
StartThreads(r, slot, setting, forms) ==
    /\ Makes(r, Open(slot, setting))
    /\ lease[r] = NoLease /\ ~ setting.mpi
    /\ IF Admitted(r, setting) /\ forms
         THEN /\ lease' = [lease EXCEPT ![r] =
                    [setting |-> setting, owns |-> FALSE, handler |-> "host",
                     slot |-> slot, ceiling |-> 0, started |-> TRUE,
                     before |-> openmp[r]]]
              /\ openmp' = [openmp EXCEPT ![r] = TeamOf(Team(r, setting, 0))]
              /\ contexts' = [contexts EXCEPT ![r] = {slot}]
              /\ Ends(r, "ok")
         ELSE Ends(r, "threw") /\ UNCHANGED <<lease, openmp, contexts>>
    /\ UNCHANGED <<mpi, handler, told>>

(* State with MPI: the error handler, and in observe_shared_cpu_affinity   *)
(* the mask of the rank or a failure to get it, which the ranks of the     *)
(* node agree on before they exchange masks.                               *)
Attach(r, slot, setting, available) ==
    /\ Makes(r, Open(slot, setting))
    /\ lease[r] = NoLease /\ setting.mpi
    /\ IF mpi[r] \in {"live", "fresh"} /\ host.funneled
         THEN /\ lease' = [lease EXCEPT ![r] =
                    [setting |-> setting, owns |-> mpi[r] = "fresh",
                     handler |-> handler[r], slot |-> slot, ceiling |-> 0,
                     started |-> FALSE, before |-> openmp[r]]]
              /\ mpi' = [mpi EXCEPT ![r] = "live"]
              /\ handler' = [handler EXCEPT ![r] = "return"]
              /\ Tells(r, [Told(r, r) EXCEPT !.available = available])
              /\ Goes(r, "available")
         ELSE /\ IF mpi[r] = "fresh"
                   THEN /\ mpi' = [mpi EXCEPT ![r] = "finalizing"]
                        /\ spot' = [spot EXCEPT ![r] = "finalize"]
                        /\ outcome' = [outcome EXCEPT ![r] = "threw"]
                        /\ UNCHANGED at
                   ELSE Ends(r, "threw") /\ UNCHANGED mpi
              /\ UNCHANGED <<lease, handler, told>>
    /\ UNCHANGED <<openmp, contexts>>

(* The threads, and the verdict the rank brings to the others.             *)
FormTeam(r, ceiling, forms) ==
    LET setting == lease[r].setting
        ok == Admitted(r, setting) /\ forms
    IN  /\ lease' = [lease EXCEPT ![r].started = ok, ![r].ceiling = ceiling]
        /\ openmp' = [openmp EXCEPT ![r] =
                        IF ok THEN TeamOf(Team(r, setting, ceiling)) ELSE @]
        /\ Tells(r, [Told(r, r) EXCEPT !.started = IF ok THEN "ok" ELSE "failed"])
        /\ Goes(r, "started")
        /\ UNCHANGED <<mpi, handler>>

EveryMaskIsThere(r) == \A s \in Node(r) : Told(s, r).available = "yes"

Compare(r, forms) ==
    /\ spot[r] = "available"
    /\ \A s \in Node(r) : Told(s, r).available # "absent"
    /\ IF EveryMaskIsThere(r) /\ Cardinality(Node(r)) > 1
         THEN /\ Tells(r, [Told(r, r) EXCEPT !.gathered = TRUE])
              /\ Goes(r, "gather")
              /\ UNCHANGED <<process, lease>>
         ELSE FormTeam(r, 0, forms)
    /\ UNCHANGED <<host, script, contexts>>

(* Equal masks are shared out; masks that differ are a placement the job   *)
(* already has.                                                            *)
CeilingOf(r) ==
    IF \A s \in Node(r) : host.mask[s] = host.mask[r]
      THEN Max({1, Cardinality(host.mask[r]) \div Cardinality(Node(r))}) ELSE 0

Gather(r, forms) ==
    /\ spot[r] = "gather"
    /\ \A s \in Node(r) : Told(s, r).gathered
    /\ FormTeam(r, CeilingOf(r), forms)
    /\ UNCHANGED <<host, script, contexts>>

(* synchronize_mpi_exception "MPI runtime startup".                        *)
OnItsOwn(r) == Told(r, r).started = "failed"                     \* fault
SomeRankFailed(r) == \E s \in Job : Told(s, r).started = "failed"

Started(r) ==
    /\ spot[r] = "started"
    /\ \A s \in Job : Told(s, r).started # "absent"
    /\ IF SomeRankFailed(r)
         THEN Release(r, "threw") /\ UNCHANGED contexts
         ELSE /\ contexts' = [contexts EXCEPT ![r] = {lease[r].slot}]
              /\ Ends(r, "ok")
              /\ UNCHANGED <<process, lease>>
    /\ UNCHANGED <<host, script, told>>

(* ~RuntimeContext: the last one of the process takes the lease with it.   *)
Destroy(r, slot) ==
    /\ Makes(r, Close(slot))
    /\ contexts' = [contexts EXCEPT ![r] = @ \ {slot}]
    /\ IF contexts[r] = {slot} THEN Release(r, "ok")
       ELSE Ends(r, "ok") /\ UNCHANGED <<process, lease>>
    /\ UNCHANGED told

-----------------------------------------------------------------------------
(* What the method depends on of the configuration of the rank, or that    *)
(* there is no complete one.                                               *)
IdentityOf(r) == host.identity[r]

(* MpiExecutionIdentityAgreement: every rank has a complete configuration, *)
(* and it is that of rank 0.  It asks nothing of anyone in a job of one.   *)
Present(r) ==
    /\ Makes(r, Agree)
    /\ IF Cardinality(Job) = 1 THEN Ends(r, "ok") /\ UNCHANGED told
         ELSE /\ Tells(r, [Told(r, r) EXCEPT !.identity = IdentityOf(r)])
              /\ Goes(r, "agree")
    /\ UNCHANGED <<process, lease, contexts>>

OneIdentity(r) ==
    /\ \A s \in Job : Told(s, r).identity # "incomplete"
    /\ \A s \in Job : Told(s, r).identity = Told(0, r).identity

Agreed(r) ==
    /\ spot[r] = "agree"
    /\ \A s \in Job : Told(s, r).identity # "absent"
    /\ Ends(r, IF OneIdentity(r) THEN "ok" ELSE "threw")
    /\ UNCHANGED <<host, script, process, lease, contexts, told>>

(* The program around the library finalizes the MPI it brought.            *)
HostFinalizes(r) ==
    /\ Makes(r, FinalizeUnder)
    /\ mpi' = [mpi EXCEPT ![r] = "finalizing"]
    /\ spot' = [spot EXCEPT ![r] = "finalize"]
    /\ outcome' = [outcome EXCEPT ![r] = "ok"]
    /\ UNCHANGED <<at, handler, openmp, lease, contexts, told>>

(* What may go wrong on a rank of the job where anything does.             *)
Formed(r) == IF r \in host.frail THEN BOOLEAN ELSE {TRUE}
Seen(r) == IF r \in host.frail THEN {"yes", "no"} ELSE {"yes"}

LeaseStep(r) ==
    \/ \E slot \in Slots, setting \in Settings :
         \/ Share(r, slot, setting)
         \/ \E forms \in Formed(r) : StartThreads(r, slot, setting, forms)
         \/ \E available \in Seen(r) : Attach(r, slot, setting, available)
    \/ \E forms \in Formed(r) : Compare(r, forms) \/ Gather(r, forms)
    \/ Started(r)
    \/ \E slot \in Slots : Destroy(r, slot)
    \/ Finalized(r)
    \/ Present(r)
    \/ Agreed(r)
    \/ HostFinalizes(r)

MadeItsCalls(r) == at[r] > host.calls \/ (at[r] > Len(script) /\ Calls(r) = {})

LeasesDone == (\A r \in Job : spot[r] = "call" /\ MadeItsCalls(r)) /\ UNCHANGED leases

(* Nothing repeats and LeasesDone is the only way to stop: a rank left in  *)
(* a collective its peers did not enter is a deadlock.                     *)
LeaseNext == (\E r \in Job : LeaseStep(r)) \/ LeasesDone

LeaseSpec == LeaseInit /\ [][LeaseNext]_leases

-----------------------------------------------------------------------------
(* Between two calls: while a context of the process lives, its settings   *)
(* are those of the lease and MPI's errors return, whoever initialized     *)
(* MPI; when none does, every setting is what it was before the first one, *)
(* also after a start that failed, and MPI is live exactly if the program  *)
(* around the library initialized it and has not finalized it.             *)
LeaseIsWhole ==
    \A r \in Job : spot[r] = "call" =>
        /\ lease[r] = NoLease <=> contexts[r] = {}
        /\ contexts[r] # {} =>
             LET setting == lease[r].setting IN
             /\ openmp[r] \in {TeamOf(n) : n \in 1 .. host.limit[r]}
             /\ setting.threads # 0 => openmp[r].threads = setting.threads
             /\ setting.mpi =>
                  /\ mpi[r] = "live" => handler[r] = "return"
                  /\ mpi[r] # "live" => host.initialized
        /\ contexts[r] = {} =>
             /\ openmp[r] = host.openmp
             /\ mpi[r] = "live" => host.initialized /\ handler[r] = "host"

(* Ranks that have made the same calls got the same answers and hold the   *)
(* same contexts; and where they are on one node with the same processors, *)
(* and no rank failed to see them, none has more than its part of them:    *)
(* the automatic teams fit on the node together, were they all as large,   *)
(* unless there are more ranks than processors.                            *)
StartedTogether ==
    \A r, s \in Job :
        at[r] = at[s] /\ spot[r] = "call" /\ spot[s] = "call" =>
            /\ outcome[r] = outcome[s] /\ contexts[r] = contexts[s]
            /\ (\A q \in Node(r) : /\ at[q] = at[r] /\ spot[q] = "call"
                                  /\ contexts[q] # {}
                                  /\ lease[q].ceiling > 0
                                  /\ lease[q].setting.threads = 0)
               => \A q \in Node(r) :
                    openmp[q].threads * Cardinality(Node(r))
                      <= Max({Cardinality(host.mask[r]), Cardinality(Node(r))})

(* The contexts of a rank, and those of all ranks together.                *)
LeasesAreWhole == LeaseIsWhole /\ StartedTogether
=============================================================================
