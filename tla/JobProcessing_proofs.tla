------------------------ MODULE JobProcessing_proofs ------------------------
(***************************************************************************)
(* JobProcessing for any number of jobs, keys, requests and workers: the   *)
(* locks exclude, every balance written was computed from the committed    *)
(* row, and the transactions implement the atomic UsageBudget.             *)
(*                                                                         *)
(* Every action replaces pc, tx and saw at one process.  LocalStep is the  *)
(* case in which no row changes, CommitStep the case in which rows change  *)
(* under the locks of the process; each action is then shown to be an      *)
(* instance of one of the two.                                             *)
(***************************************************************************)
EXTENDS JobProcessing, BudgetRows_proofs

USE SizesAssumption, LimitAssumption, AmountsAssumption, TargetsAssumption,
    ProcessAssumption DEF Jobs, Procs

\* The values processes are initialised with have their types.
LEMMA ConstantTypes ==
  /\ NoCall \in Call /\ NoRow \in BudgetRow
  /\ NoCall.job = 0
BY DEF NoCall, Args, Call, NoRow, BudgetRow, ErrorCodes

\* Committed amounts are integers.
LEMMA NormalizedInt ==
  \A raw \in Costs \cup Actuals \cup Limits : normalized_cost(raw) \in Int
BY NormalizedCostRounds

\* A step of process p that changes no row, takes only free locks, reads the
\* budget when it locks it and establishes what p may rely on, keeps IInv.
LEMMA LocalStep ==
  ASSUME IInv, UNCHANGED <<rows, job>>,
         NEW p \in Procs, NEW s \in Steps, NEW call \in Call, NEW b \in BudgetRow,
         pc' = [pc EXCEPT ![p] = s], tx' = [tx EXCEPT ![p] = call],
         saw' = [saw EXCEPT ![p] = b],
         queue' \subseteq Message, held' \in [Workers -> Message \cup {NoMessage}],
         dead' \subseteq Jobs,
         s \in BudgetSteps => b = budget,
         \A q \in Procs : q # p =>
           /\ s \in BudgetSteps => ~HoldsBudget(q)
           /\ s \in ReservationSteps => ~HoldsReservation(q, call.job)
           /\ s \in JobSteps => ~HoldsJob(q, call.job)
           /\ s \in KeySteps => ~HoldsKey(q, call.key)
           /\ pc[q] \in CreateSteps => tx[q].job # call.job,
         CreateOK(p)', OverrideOK(p)', ReservationOK(p)', JobOK(p)',
         \A w \in Workers : WorkerOK(w)', MessagesNameStoredJobs'
  PROVE  IInv'
<1>0. /\ TypeOK /\ Exclusive /\ ReadIsCurrent
      /\ \A q \in Procs : CreateOK(q) /\ OverrideOK(q) /\ ReservationOK(q) /\ JobOK(q)
  BY DEF IInv
<1>u. /\ budget' = budget /\ reservation' = reservation /\ ledger' = ledger
      /\ overrides' = overrides /\ job' = job
  BY DEF rows
<1>1. TypeOK'
  BY <1>0, <1>u DEF TypeOK
<1>2. /\ pc'[p] = s /\ tx'[p] = call /\ saw'[p] = b
      /\ \A q \in Procs : q # p => pc'[q] = pc[q] /\ tx'[q] = tx[q] /\ saw'[q] = saw[q]
  BY <1>0 DEF TypeOK
<1>3. Exclusive'
  <2>1. \A q, r \in Procs : HoldsBudget(q)' /\ HoldsBudget(r)' => q = r
    BY <1>0, <1>2 DEF Exclusive, HoldsBudget
  <2>2. \A q, r \in Procs, j \in Jobs :
          HoldsReservation(q, j)' /\ HoldsReservation(r, j)' => q = r
    BY <1>0, <1>2 DEF Exclusive, HoldsReservation
  <2>3. \A q, r \in Procs, j \in Jobs : HoldsJob(q, j)' /\ HoldsJob(r, j)' => q = r
    BY <1>0, <1>2 DEF Exclusive, HoldsJob
  <2>4. \A q, r \in Procs, k \in Keys : HoldsKey(q, k)' /\ HoldsKey(r, k)' => q = r
    BY <1>0, <1>2 DEF Exclusive, HoldsKey
  <2> QED BY <2>1, <2>2, <2>3, <2>4 DEF Exclusive
<1>4. ReadIsCurrent'
  BY <1>0, <1>u, <1>2 DEF ReadIsCurrent, HoldsBudget
<1>5. ASSUME NEW q \in Procs
      PROVE  CreateOK(q)' /\ OverrideOK(q)' /\ ReservationOK(q)' /\ JobOK(q)'
  <2>1. CASE q = p
    BY <2>1
  <2>2. CASE q # p
    <3>1. pc'[q] = pc[q] /\ tx'[q] = tx[q]
      BY <1>2, <2>2
    <3>2. \A k \in Keys : KeyTaken(k)' = KeyTaken(k)
      BY <1>u DEF KeyTaken
    <3>3. CreateOK(q)'
      <4>1. CreateOK(q)
        BY <1>0
      <4>2. pc[q] \in CreateSteps =>
              \A r \in Procs : r # q => tx'[r].job # tx[q].job
        BY <1>2, <2>2, <4>1 DEF CreateOK
      <4>3. pc[q] \in KeySteps => pc[q] \in CreateSteps
        BY DEF KeySteps, CreateSteps
      <4> QED BY <1>u, <3>1, <3>2, <4>1, <4>2, <4>3 DEF CreateOK
    <3>4. OverrideOK(q)' /\ ReservationOK(q)' /\ JobOK(q)'
      BY <1>0, <1>u, <3>1 DEF OverrideOK, ReservationOK, JobOK
    <3> QED BY <3>3, <3>4
  <2> QED BY <2>1, <2>2
<1>6. JobHasReservation' /\ OneJobPerKey' /\ WorkerFailureReleases'
  BY <1>u DEF IInv, JobHasReservation, OneJobPerKey, WorkerFailureReleases
<1> QED BY <1>1, <1>3, <1>4, <1>5, <1>6 DEF IInv

\* A process that returns holds nothing and relies on nothing: a rollback, a
\* refusal or the end of a call keeps IInv, whatever it does to the queue.
LEMMA ReturnStep ==
  ASSUME IInv, UNCHANGED <<rows, job>>, NEW p \in Procs, Return(p),
         queue' \subseteq Message, held' \in [Workers -> Message \cup {NoMessage}],
         dead' \subseteq Jobs,
         \A w \in Workers : w # p => held'[w] = held[w],
         MessagesNameStoredJobs'
  PROVE  IInv'
<1>0. TypeOK /\ \A w \in Workers : WorkerOK(w)
  BY DEF IInv
<1>1. /\ pc' = [pc EXCEPT ![p] = "idle"] /\ tx' = [tx EXCEPT ![p] = NoCall]
      /\ saw' = [saw EXCEPT ![p] = NoRow]
  BY DEF Return
<1>2. "idle" \in Steps /\ NoCall \in Call /\ NoRow \in BudgetRow
  BY ConstantTypes DEF Steps
<1>3. "idle" \notin BudgetSteps \cup ReservationSteps \cup JobSteps \cup KeySteps
                    \cup CreateSteps \cup SettleSteps \cup ProcessSteps \cup WorkerSteps
  BY DEF BudgetSteps, ReservationSteps, JobSteps, KeySteps, CreateSteps, SettleSteps,
         ProcessSteps, WorkerSteps
<1>4. pc'[p] = "idle" /\ \A q \in Procs : q # p => pc'[q] = pc[q] /\ tx'[q] = tx[q]
  BY <1>0, <1>1 DEF TypeOK
<1>5. CreateOK(p)' /\ OverrideOK(p)' /\ ReservationOK(p)' /\ JobOK(p)'
  BY <1>3, <1>4 DEF CreateOK, OverrideOK, ReservationOK, JobOK
<1>6. \A w \in Workers : WorkerOK(w)'
  BY <1>0, <1>3, <1>4 DEF WorkerOK
<1>7. \A q \in Procs : pc[q] \in CreateSteps => tx[q].job # NoCall.job
  BY ConstantTypes DEF IInv, CreateOK
<1> HIDE DEF Jobs, Procs
<1> QED BY <1>1, <1>2, <1>3, <1>5, <1>6, <1>7, LocalStep

\* A commit of process p: it ends in statement s with call and b as its locals,
\* rows change only where p holds the lock or creates the job, and no other
\* process's key is taken.
Commits(p, s, call, b) ==
  /\ pc' = [pc EXCEPT ![p] = s]
  /\ tx' = [tx EXCEPT ![p] = call]
  /\ saw' = [saw EXCEPT ![p] = b]
  /\ call.job = tx[p].job \/ call.job = 0
  /\ budget' # budget => HoldsBudget(p)
  /\ \A i \in Jobs : reservation'[i] # reservation[i] =>
                      HoldsReservation(p, i) \/ reservation[i].state = "none"
  /\ \A i \in Jobs : job'[i] # job[i] =>
                      HoldsJob(p, i) \/ (pc[p] \in CreateSteps /\ tx[p].job = i)
  /\ \A i \in Jobs : job[i].state # "none" => job'[i].state # "none"
  /\ \A q \in Procs : q # p /\ pc[q] \in KeySteps => ~KeyTaken(tx[q].key)'
  /\ s # "idle" => call.job \in Jobs /\ job'[call.job].state # "none"

\* What holds of the committed rows in the next state.
CommittedOK ==
  /\ TypeOK /\ JobHasReservation /\ OneJobPerKey /\ WorkerFailureReleases
  /\ \A w \in Workers : WorkerOK(w)
  /\ MessagesNameStoredJobs

\* A commit keeps IInv: the process holds nothing afterwards.
LEMMA CommitStep ==
  ASSUME IInv, NEW p \in Procs, NEW s \in {"idle", "publish", "ack"},
         NEW call \in Call, NEW b \in BudgetRow, Commits(p, s, call, b), CommittedOK'
  PROVE  IInv'
<1>h. /\ pc' = [pc EXCEPT ![p] = s] /\ tx' = [tx EXCEPT ![p] = call]
      /\ saw' = [saw EXCEPT ![p] = b]
      /\ call.job = tx[p].job \/ call.job = 0
      /\ budget' # budget => HoldsBudget(p)
      /\ \A i \in Jobs : reservation'[i] # reservation[i] =>
                          HoldsReservation(p, i) \/ reservation[i].state = "none"
      /\ \A i \in Jobs : job'[i] # job[i] =>
                          HoldsJob(p, i) \/ (pc[p] \in CreateSteps /\ tx[p].job = i)
      /\ \A i \in Jobs : job[i].state # "none" => job'[i].state # "none"
      /\ \A q \in Procs : q # p /\ pc[q] \in KeySteps => ~KeyTaken(tx[q].key)'
      /\ s # "idle" => call.job \in Jobs /\ job'[call.job].state # "none"
  BY DEF Commits
<1>c. /\ TypeOK' /\ JobHasReservation' /\ OneJobPerKey' /\ WorkerFailureReleases'
      /\ \A w \in Workers : WorkerOK(w)'
      /\ MessagesNameStoredJobs'
  BY DEF CommittedOK
<1>0. /\ TypeOK /\ Exclusive /\ ReadIsCurrent
      /\ \A q \in Procs : CreateOK(q) /\ OverrideOK(q) /\ ReservationOK(q) /\ JobOK(q)
  BY DEF IInv
<1>1. s \notin BudgetSteps \cup ReservationSteps \cup JobSteps \cup KeySteps
               \cup CreateSteps \cup SettleSteps \cup ProcessSteps
  BY DEF BudgetSteps, ReservationSteps, JobSteps, KeySteps, CreateSteps, SettleSteps,
         ProcessSteps
<1>2. /\ pc'[p] = s /\ tx'[p] = call
      /\ \A q \in Procs : q # p => pc'[q] = pc[q] /\ tx'[q] = tx[q] /\ saw'[q] = saw[q]
  BY <1>0, <1>h DEF TypeOK
<1>3. Exclusive'
  <2>1. \A q, r \in Procs : HoldsBudget(q)' /\ HoldsBudget(r)' => q = r
    BY <1>0, <1>1, <1>2 DEF Exclusive, HoldsBudget
  <2>2. \A q, r \in Procs, j \in Jobs :
          HoldsReservation(q, j)' /\ HoldsReservation(r, j)' => q = r
    BY <1>0, <1>1, <1>2 DEF Exclusive, HoldsReservation
  <2>3. \A q, r \in Procs, j \in Jobs : HoldsJob(q, j)' /\ HoldsJob(r, j)' => q = r
    BY <1>0, <1>1, <1>2 DEF Exclusive, HoldsJob
  <2>4. \A q, r \in Procs, k \in Keys : HoldsKey(q, k)' /\ HoldsKey(r, k)' => q = r
    BY <1>0, <1>1, <1>2 DEF Exclusive, HoldsKey
  <2> QED BY <2>1, <2>2, <2>3, <2>4 DEF Exclusive
<1>4. \A q \in Procs : q # p /\ HoldsBudget(q) => budget' = budget
  BY <1>0, <1>h DEF Exclusive
<1>5. ReadIsCurrent'
  BY <1>0, <1>1, <1>2, <1>4 DEF ReadIsCurrent, HoldsBudget
<1>6. ASSUME NEW q \in Procs
      PROVE  CreateOK(q)' /\ OverrideOK(q)' /\ ReservationOK(q)' /\ JobOK(q)'
  <2>1. CASE q = p
    <3>1. CreateOK(p)' /\ OverrideOK(p)' /\ ReservationOK(p)'
      BY <1>1, <1>2 DEF CreateOK, OverrideOK, ReservationOK
    <3>2. JobOK(p)'
      BY <1>1, <1>2, <1>h DEF JobOK, WorkerSteps
    <3> QED BY <2>1, <3>1, <3>2
  <2>2. CASE q # p
    <3>1. pc'[q] = pc[q] /\ tx'[q] = tx[q]
      BY <1>2, <2>2
    <3>2. /\ CreateOK(q) /\ OverrideOK(q) /\ ReservationOK(q) /\ JobOK(q)
          /\ CreateOK(p) /\ JobOK(p)
      BY <1>0
    <3>3. pc[q] \in CreateSteps => job'[tx[q].job].state = "none"
      <4>1. SUFFICES ASSUME pc[q] \in CreateSteps, job'[tx[q].job] # job[tx[q].job]
                     PROVE  FALSE
        BY <3>2 DEF CreateOK
      <4>2. tx[q].job \in Jobs /\ job[tx[q].job].state = "none" /\ tx[p].job # tx[q].job
        BY <2>2, <3>2, <4>1 DEF CreateOK
      <4> QED BY <1>h, <4>1, <4>2 DEF HoldsJob
    <3>4. pc[q] \in CreateSteps => \A r \in Procs : r # q => tx'[r].job # tx[q].job
      BY <1>2, <1>h, <2>2, <3>2 DEF CreateOK
    <3>5. CreateOK(q)'
      <4>1. pc[q] = "commit_create" => HoldsBudget(q)
        BY DEF HoldsBudget, BudgetSteps
      <4> QED BY <1>4, <1>h, <2>2, <3>1, <3>2, <3>3, <3>4, <4>1 DEF CreateOK
    <3>6. OverrideOK(q)'
      <4>1. pc[q] = "commit_override" => HoldsBudget(q)
        BY DEF HoldsBudget, BudgetSteps
      <4> QED BY <1>4, <2>2, <3>1, <3>2, <4>1 DEF OverrideOK
    <3>7. pc[q] \in ReservationSteps => reservation'[tx[q].job] = reservation[tx[q].job]
      <4>1. SUFFICES ASSUME pc[q] \in ReservationSteps,
                            reservation'[tx[q].job] # reservation[tx[q].job]
                     PROVE  FALSE
        OBVIOUS
      <4>2. tx[q].job \in Jobs /\ Active(reservation[tx[q].job])
        BY <3>2, <4>1 DEF ReservationOK
      <4>3. HoldsReservation(q, tx[q].job)
        BY <4>1 DEF HoldsReservation
      <4>4. HoldsReservation(p, tx[q].job)
        BY <1>h, <4>1, <4>2 DEF Active
      <4> QED BY <1>0, <2>2, <4>2, <4>3, <4>4 DEF Exclusive
    <3>8. ReservationOK(q)'
      <4>1. pc[q] \in SettleSteps => pc[q] \in ReservationSteps
        BY DEF SettleSteps, ReservationSteps
      <4> QED BY <3>1, <3>2, <3>7, <4>1 DEF ReservationOK
    <3>9. pc[q] \in JobSteps => job'[tx[q].job] = job[tx[q].job]
      <4>1. SUFFICES ASSUME pc[q] \in JobSteps, job'[tx[q].job] # job[tx[q].job]
                     PROVE  FALSE
        OBVIOUS
      <4>2. tx[q].job \in Jobs /\ job[tx[q].job].state # "none"
        BY <3>2, <4>1 DEF JobOK, JobSteps, WorkerSteps
      <4>3. HoldsJob(q, tx[q].job)
        BY <4>1 DEF HoldsJob
      <4>4. HoldsJob(p, tx[q].job)
        BY <1>h, <3>2, <4>1, <4>2 DEF CreateOK
      <4> QED BY <1>0, <2>2, <4>2, <4>3, <4>4 DEF Exclusive
    <3>10. JobOK(q)'
      <4>1. /\ pc[q] = "commit_transition" => pc[q] \in JobSteps
            /\ pc[q] \in ProcessSteps => pc[q] \in JobSteps
        BY DEF JobSteps, ProcessSteps
      <4>2. /\ pc[q] = "commit_transition" => job'[tx[q].job] = job[tx[q].job]
            /\ pc[q] \in ProcessSteps => job'[tx[q].job] = job[tx[q].job]
        BY <3>9, <4>1
      <4>3. tx[q].job \in Jobs /\ job[tx[q].job].state # "none" =>
              job'[tx[q].job].state # "none"
        BY <1>h
      <4> QED BY <3>1, <3>2, <4>2, <4>3 DEF JobOK
    <3> QED BY <3>5, <3>6, <3>8, <3>10
  <2> QED BY <2>1, <2>2
<1> QED BY <1>3, <1>5, <1>6, <1>c DEF IInv

\* Messages name stored jobs, and workers hold the message of their job, as long
\* as neither the queue nor the jobs change and no worker starts a delivery.
LEMMA BusUnchanged ==
  ASSUME IInv, UNCHANGED <<job, bus>>, NEW p \in Procs,
         \A q \in Procs : q # p => pc'[q] = pc[q] /\ tx'[q] = tx[q],
         p \in Workers /\ pc'[p] \in WorkerSteps =>
           pc[p] \in WorkerSteps /\ tx'[p] = tx[p]
  PROVE  /\ queue' \subseteq Message /\ held' \in [Workers -> Message \cup {NoMessage}]
         /\ dead' \subseteq Jobs
         /\ \A w \in Workers : WorkerOK(w)'
         /\ MessagesNameStoredJobs'
<1>1. /\ job' = job /\ queue' = queue /\ held' = held /\ dead' = dead
      /\ TypeOK /\ MessagesNameStoredJobs /\ \A w \in Workers : WorkerOK(w)
  BY DEF bus, IInv
<1>2. \A w \in Workers : WorkerOK(w)'
  BY <1>1 DEF WorkerOK
<1> QED BY <1>1, <1>2 DEF TypeOK, MessagesNameStoredJobs

\* A process executes its next statement and changes no row.
LEMMA GotoStep ==
  ASSUME IInv, UNCHANGED <<rows, job, tx, bus>>,
         NEW p \in Procs, NEW from \in Steps, NEW s \in Steps, NEW b \in BudgetRow,
         Goto(p, from, s), saw' = [saw EXCEPT ![p] = b],
         s \in WorkerSteps => from \in WorkerSteps,
         s \in BudgetSteps => b = budget,
         \A q \in Procs : q # p =>
           /\ s \in BudgetSteps => ~HoldsBudget(q)
           /\ s \in ReservationSteps => ~HoldsReservation(q, tx[p].job)
           /\ s \in JobSteps => ~HoldsJob(q, tx[p].job)
           /\ s \in KeySteps => ~HoldsKey(q, tx[p].key),
         CreateOK(p)', OverrideOK(p)', ReservationOK(p)', JobOK(p)'
  PROVE  IInv'
<1>0. TypeOK /\ \A q \in Procs : CreateOK(q)
  BY DEF IInv
<1>1. pc[p] = from /\ pc' = [pc EXCEPT ![p] = s] /\ tx' = tx /\ job' = job
      /\ UNCHANGED <<rows, job>> /\ UNCHANGED <<job, bus>>
  BY DEF Goto
<1>2. tx' = [tx EXCEPT ![p] = tx[p]] /\ tx[p] \in Call
  BY <1>0, <1>1 DEF TypeOK
<1>3. \A q \in Procs : q # p => pc'[q] = pc[q] /\ tx'[q] = tx[q]
  BY <1>0, <1>1 DEF TypeOK
<1>4. pc'[p] = s
  BY <1>0, <1>1 DEF TypeOK
<1>5. /\ queue' \subseteq Message /\ held' \in [Workers -> Message \cup {NoMessage}]
      /\ dead' \subseteq Jobs
      /\ \A w \in Workers : WorkerOK(w)'
      /\ MessagesNameStoredJobs'
  BY <1>1, <1>3, <1>4, BusUnchanged
<1>6. \A q \in Procs : q # p /\ pc[q] \in CreateSteps => tx[q].job # tx[p].job
  BY <1>0 DEF CreateOK
<1> HIDE DEF Jobs, Procs
<1> QED BY <1>1, <1>2, <1>5, <1>6, LocalStep

\* A request starts a call and changes no row.
LEMMA StartStep ==
  ASSUME IInv, UNCHANGED <<rows, job, bus>>,
         NEW p \in Clients, NEW call \in Call, NEW s \in Steps, NEW b \in BudgetRow,
         Start(p, call, s), saw' = [saw EXCEPT ![p] = b],
         s \in BudgetSteps => b = budget,
         \A q \in Procs : q # p =>
           /\ s \in BudgetSteps => ~HoldsBudget(q)
           /\ s \in ReservationSteps => ~HoldsReservation(q, call.job)
           /\ s \in JobSteps => ~HoldsJob(q, call.job)
           /\ s \in KeySteps => ~HoldsKey(q, call.key)
           /\ pc[q] \in CreateSteps => tx[q].job # call.job,
         CreateOK(p)', OverrideOK(p)', ReservationOK(p)', JobOK(p)'
  PROVE  IInv'
<1>0. TypeOK /\ p \in Procs /\ p \notin Workers
  BY DEF IInv
<1>1. pc' = [pc EXCEPT ![p] = s] /\ tx' = [tx EXCEPT ![p] = call]
      /\ UNCHANGED <<rows, job>> /\ UNCHANGED <<job, bus>>
  BY DEF Start, Goto
<1>2. \A q \in Procs : q # p => pc'[q] = pc[q] /\ tx'[q] = tx[q]
  BY <1>0, <1>1 DEF TypeOK
<1>3. /\ queue' \subseteq Message /\ held' \in [Workers -> Message \cup {NoMessage}]
      /\ dead' \subseteq Jobs
      /\ \A w \in Workers : WorkerOK(w)'
      /\ MessagesNameStoredJobs'
  BY <1>0, <1>1, <1>2, BusUnchanged
<1> HIDE DEF Jobs, Procs
<1> QED BY <1>0, <1>1, <1>3, LocalStep

-----------------------------------------------------------------------------
(* JobService.create *)

\* The SELECT finds no job: the new id is nobody's.
LEMMA CreateLookupInv ==
  ASSUME IInv, NEW c \in Clients, NEW k \in Keys, NEW raw \in Costs, create_lookup(c, k, raw)
  PROVE  IInv'
<1>0. TypeOK /\ c \in Procs /\ UNCHANGED <<rows, job, bus>> /\ saw' = saw
  BY DEF IInv, create_lookup
<1>1. PICK j \in Jobs : /\ job[j].state = "none"
                        /\ \A p \in Procs : tx[p].job # j
                        /\ Start(c, Args(j, k, normalized_cost(raw), "none", "none"), "insert")
  BY DEF create_lookup
<1> DEFINE call == Args(j, k, normalized_cost(raw), "none", "none")
<1>2. normalized_cost(raw) \in Int /\ normalized_cost(raw) >= 0
  BY NormalizedInt DEF create_lookup, ValidCost
<1>3. call \in Call /\ call.job = j /\ call.key = k /\ call.cost = normalized_cost(raw)
  BY <1>2 DEF Args, Call, ErrorCodes
<1>4. pc'[c] = "insert" /\ tx'[c] = call /\ saw' = [saw EXCEPT ![c] = saw[c]]
      /\ saw[c] \in BudgetRow /\ \A q \in Procs : q # c => tx'[q] = tx[q]
  BY <1>0, <1>1 DEF Start, Goto, TypeOK
<1> HIDE DEF call
<1>5. "insert" \in Steps /\ "insert" \in CreateSteps
      /\ "insert" \notin BudgetSteps \cup ReservationSteps \cup JobSteps \cup KeySteps
                         \cup SettleSteps \cup ProcessSteps \cup WorkerSteps
  BY DEF Steps, ClientSteps, CreateSteps, BudgetSteps, ReservationSteps, JobSteps, KeySteps,
         SettleSteps, ProcessSteps, WorkerSteps
<1>6. CreateOK(c)'
  <2>1. \A q \in Procs : q # c => tx'[q].job # tx'[c].job
    BY <1>1, <1>3, <1>4
  <2>2. job' = job
    BY <1>0
  <2> QED BY <1>1, <1>2, <1>3, <1>4, <1>5, <2>1, <2>2 DEF CreateOK
<1>7. OverrideOK(c)' /\ ReservationOK(c)' /\ JobOK(c)'
  BY <1>4, <1>5 DEF OverrideOK, ReservationOK, JobOK
<1>8. Start(c, call, "insert")
  BY <1>1 DEF call
<1>9. \A q \in Procs : tx[q].job # call.job
  BY <1>1, <1>3
<1> HIDE DEF Jobs, Procs
<1>10. \A q \in Procs : q # c =>
         /\ "insert" \in BudgetSteps => ~HoldsBudget(q)
         /\ "insert" \in ReservationSteps => ~HoldsReservation(q, call.job)
         /\ "insert" \in JobSteps => ~HoldsJob(q, call.job)
         /\ "insert" \in KeySteps => ~HoldsKey(q, call.key)
         /\ pc[q] \in CreateSteps => tx[q].job # call.job
  BY <1>5, <1>9
<1>11. /\ UNCHANGED <<rows, job, bus>> /\ call \in Call /\ "insert" \in Steps
       /\ saw[c] \in BudgetRow /\ saw' = [saw EXCEPT ![c] = saw[c]]
       /\ "insert" \notin BudgetSteps
  BY <1>0, <1>3, <1>4, <1>5
<1> QED BY <1>6, <1>7, <1>8, <1>10, <1>11, StartStep

\* The insert succeeds: no committed job and no open transaction has the key.
LEMMA CreateInsertInv ==
  ASSUME IInv, NEW c \in Clients, create_insert(c)
  PROVE  IInv'
<1>0. TypeOK /\ c \in Procs /\ UNCHANGED <<rows, job, tx, bus>> /\ saw' = saw
      /\ Goto(c, "insert", "reserve") /\ KeyFree(tx[c].key) /\ ~KeyTaken(tx[c].key)
      /\ CreateOK(c)
  BY DEF IInv, create_insert
<1>1. pc[c] = "insert" /\ pc'[c] = "reserve" /\ saw' = [saw EXCEPT ![c] = saw[c]]
      /\ saw[c] \in BudgetRow
  BY <1>0 DEF Goto, TypeOK
<1>2. {"insert", "reserve"} \subseteq Steps \cap CreateSteps
      /\ "reserve" \notin BudgetSteps \cup ReservationSteps \cup JobSteps
                          \cup SettleSteps \cup ProcessSteps \cup WorkerSteps
  BY DEF Steps, ClientSteps, CreateSteps, BudgetSteps, ReservationSteps, JobSteps,
         SettleSteps, ProcessSteps, WorkerSteps
<1>3. CreateOK(c)'
  <2>1. tx' = tx /\ job' = job
    BY <1>0
  <2>2. ~KeyTaken(tx[c].key)'
    BY <1>0, <2>1 DEF KeyTaken
  <2> QED BY <1>0, <1>1, <1>2, <2>1, <2>2 DEF CreateOK
<1>4. OverrideOK(c)' /\ ReservationOK(c)' /\ JobOK(c)'
  BY <1>1, <1>2 DEF OverrideOK, ReservationOK, JobOK
<1>5. \A q \in Procs : ~HoldsKey(q, tx[c].key)
  BY <1>0 DEF KeyFree
<1> HIDE DEF Jobs, Procs
<1> QED BY <1>0, <1>1, <1>2, <1>3, <1>4, <1>5, GotoStep

\* reserve locks the budget row and accepts the cost.
LEMMA CreateReserveInv ==
  ASSUME IInv, NEW c \in Clients, create_reserve(c)
  PROVE  IInv'
<1>0. TypeOK /\ c \in Procs /\ UNCHANGED <<rows, job, tx, bus>>
      /\ Goto(c, "reserve", "commit_create") /\ BudgetFree /\ FitsLimit(budget, tx[c].cost)
      /\ CreateOK(c) /\ Exclusive
  BY DEF IInv, create_reserve
<1>1. pc[c] = "reserve" /\ pc'[c] = "commit_create" /\ saw' = [saw EXCEPT ![c] = budget]
      /\ budget \in BudgetRow
  BY <1>0 DEF Goto, TypeOK, create_reserve, See
<1>2. {"reserve", "commit_create"} \subseteq Steps \cap CreateSteps \cap KeySteps
      /\ "commit_create" \in BudgetSteps
      /\ "commit_create" \notin ReservationSteps \cup JobSteps
                          \cup SettleSteps \cup ProcessSteps \cup WorkerSteps
  BY DEF Steps, ClientSteps, CreateSteps, BudgetSteps, ReservationSteps, JobSteps, KeySteps,
         SettleSteps, ProcessSteps, WorkerSteps
<1>3. CreateOK(c)'
  <2>1. tx' = tx /\ job' = job /\ budget' = budget
    BY <1>0 DEF rows
  <2>2. ~KeyTaken(tx[c].key)'
    BY <1>0, <1>1, <1>2, <2>1 DEF KeyTaken, CreateOK
  <2> QED BY <1>0, <1>1, <1>2, <2>1, <2>2 DEF CreateOK
<1>4. OverrideOK(c)' /\ ReservationOK(c)' /\ JobOK(c)'
  BY <1>1, <1>2 DEF OverrideOK, ReservationOK, JobOK
<1>5. \A q \in Procs : q # c => ~HoldsBudget(q) /\ ~HoldsKey(q, tx[c].key)
  <2>1. HoldsKey(c, tx[c].key) /\ tx[c].key \in Keys
    BY <1>0, <1>1, <1>2 DEF HoldsKey, CreateOK
  <2> QED BY <1>0, <2>1 DEF BudgetFree, Exclusive
<1> HIDE DEF Jobs, Procs
<1> QED BY <1>0, <1>1, <1>2, <1>3, <1>4, <1>5, GotoStep

\* The budget rows the operations write are budget rows.
LEMMA BudgetRowTypes ==
  ASSUME NEW b \in BudgetRow, NEW x \in Int, NEW y \in Int
  PROVE  /\ AfterReserve(b, x) \in BudgetRow /\ AfterSettle(b, x, y) \in BudgetRow
         /\ AfterRelease(b, x) \in BudgetRow /\ AfterOverride(b, x) \in BudgetRow
<1>1. b.hard_limit \in Int /\ b.spent \in Int /\ b.reserved \in Int
  BY DEF BudgetRow
<1>2. \A l, s, r \in Int : [hard_limit |-> l, spent |-> s, reserved |-> r] \in BudgetRow
  BY DEF BudgetRow
<1>3. AfterReserve(b, x) \in BudgetRow
  BY <1>1, <1>2 DEF AfterReserve, BudgetRow
<1>4. AfterRelease(b, x) \in BudgetRow
  BY <1>1, <1>2 DEF AfterRelease, BudgetRow
<1>5. AfterOverride(b, x) \in BudgetRow
  BY <1>1, <1>2 DEF AfterOverride, BudgetRow
<1>6. AfterSettle(b, x, y) \in BudgetRow
  <2>1. b.spent + y \in Int /\ b.reserved - x \in Int
    BY <1>1
  <2> QED BY <1>1, <1>2, <2>1 DEF AfterSettle
<1> QED BY <1>3, <1>4, <1>5, <1>6

\* The ledger rows they write are ledger rows.
LEMMA LedgerRowTypes ==
  ASSUME NEW l \in LedgerRow, NEW x \in Int, NEW y \in Int
  PROVE  /\ LogReserve(l, x) \in LedgerRow /\ LogSettle(l, x, y) \in LedgerRow
         /\ LogRelease(l, x) \in LedgerRow
<1>1. l.reservation \in Int /\ l.charge \in Int /\ l.release \in Int
  BY DEF LedgerRow
<1>2. LogReserve(l, x) \in LedgerRow
  BY <1>1 DEF LogReserve, LedgerRow
<1>3. LogSettle(l, x, y) \in LedgerRow
  BY <1>1 DEF LogSettle, LedgerRow
<1>4. LogRelease(l, x) \in LedgerRow
  BY <1>1 DEF LogRelease, LedgerRow
<1> QED BY <1>2, <1>3, <1>4

\* The creation commits: job, reservation, ledger entry and balance.
LEMMA CreateCommitInv ==
  ASSUME IInv, NEW c \in Clients, create_commit(c)
  PROVE  IInv'
<1> DEFINE j == tx[c].job
           cost == tx[c].cost
           row == [state |-> "queued", key |-> tx[c].key, error_code |-> "none"]
<1>0. TypeOK /\ c \in Procs /\ c \notin Workers /\ CreateOK(c) /\ Exclusive
      /\ \A q \in Procs : CreateOK(q)
  BY DEF IInv
<1>1. /\ pc[c] = "commit_create" /\ pc' = [pc EXCEPT ![c] = "publish"]
      /\ job' = [job EXCEPT ![j] = row]
      /\ budget' = AfterReserve(saw[c], cost)
      /\ reservation' = [reservation EXCEPT ![j] = Reserved(cost)]
      /\ ledger' = [ledger EXCEPT ![j] = LogReserve(ledger[j], cost)]
      /\ overrides' = overrides /\ tx' = tx /\ saw' = saw
      /\ queue' = queue /\ held' = held /\ dead' = dead
  BY DEF create_commit, Goto, bus
<1>2. "commit_create" \in CreateSteps \cap BudgetSteps \cap KeySteps
      /\ "publish" \in Steps /\ "publish" \notin WorkerSteps
  BY DEF CreateSteps, BudgetSteps, KeySteps, Steps, ClientSteps, WorkerSteps
<1>3. /\ j \in Jobs /\ job[j].state = "none" /\ tx[c].key \in Keys
      /\ ~KeyTaken(tx[c].key) /\ tx[c] \in Call /\ saw[c] \in BudgetRow
  BY <1>0, <1>1, <1>2 DEF CreateOK, TypeOK
<1>4. cost \in Nat
  BY <1>0, <1>1, <1>2, <1>3 DEF CreateOK, Call
<1>5. row \in JobRow /\ row.state = "queued" /\ row.key = tx[c].key
      /\ row.error_code = "none"
  BY <1>3 DEF JobRow, JobState, ErrorCodes
<1>6. /\ AfterReserve(saw[c], cost) \in BudgetRow /\ LogReserve(ledger[j], cost) \in LedgerRow
      /\ Reserved(cost) \in ReservationRow
  <2>1. ledger[j] \in LedgerRow /\ reservation[j] \in ReservationRow
    BY <1>0, <1>3 DEF TypeOK
  <2>2. cost \in Int /\ 0 \in Int
    BY <1>4
  <2>3. AfterReserve(saw[c], cost) \in BudgetRow
    BY <1>3, <2>2, BudgetRowTypes
  <2>4. LogReserve(ledger[j], cost) \in LedgerRow
    BY <2>1, <2>2, LedgerRowTypes
  <2>5. Reserved(cost) \in ReservationRow
    BY <1>4, <2>1, ReservationRowTypes
  <2> QED BY <2>3, <2>4, <2>5
<1> HIDE DEF row
<1>7. TypeOK'
  BY <1>0, <1>1, <1>2, <1>3, <1>5, <1>6 DEF TypeOK
<1>8. /\ job'[j] = row /\ reservation'[j] = Reserved(cost)
      /\ \A i \in Jobs : i # j => job'[i] = job[i] /\ reservation'[i] = reservation[i]
  BY <1>0, <1>1, <1>3 DEF TypeOK
<1>9. JobHasReservation' /\ reservation[j].state = "none"
  BY <1>3, <1>5, <1>8 DEF IInv, JobHasReservation, Reserved
<1>10. OneJobPerKey'
  BY <1>3, <1>5, <1>8 DEF IInv, OneJobPerKey, KeyTaken
<1>11. WorkerFailureReleases'
  BY <1>5, <1>8 DEF IInv, WorkerFailureReleases, WorkerCodes
<1>12. MessagesNameStoredJobs'
  BY <1>1, <1>5, <1>8 DEF IInv, MessagesNameStoredJobs
<1>13. \A w \in Workers : WorkerOK(w)'
  <2>1. \A w \in Workers : pc'[w] = pc[w]
    BY <1>0, <1>1 DEF TypeOK
  <2> QED BY <1>1, <2>1 DEF IInv, WorkerOK
<1>14. ASSUME NEW q \in Procs, q # c, pc[q] \in KeySteps
       PROVE  ~KeyTaken(tx[q].key)'
  <2>1. pc[q] \in CreateSteps /\ tx[q].key \in Keys /\ ~KeyTaken(tx[q].key)
    BY <1>0, <1>14 DEF CreateOK, KeySteps, CreateSteps
  <2>2. tx[q].key # tx[c].key
    BY <1>0, <1>1, <1>2, <1>14, <2>1 DEF Exclusive, HoldsKey
  <2> QED BY <1>1, <1>5, <1>8, <2>1, <2>2 DEF KeyTaken
<1>15. HoldsBudget(c)
  BY <1>1, <1>2 DEF HoldsBudget
<1>16. tx' = [tx EXCEPT ![c] = tx[c]] /\ saw' = [saw EXCEPT ![c] = saw[c]]
  BY <1>0, <1>1 DEF TypeOK
<1>17. job'[tx[c].job].state # "none"
  BY <1>5, <1>8
<1>18. /\ \A i \in Jobs : reservation'[i] # reservation[i] => reservation[i].state = "none"
       /\ \A i \in Jobs : job'[i] # job[i] => pc[c] \in CreateSteps /\ tx[c].job = i
       /\ \A i \in Jobs : job[i].state # "none" => job'[i].state # "none"
  BY <1>1, <1>2, <1>5, <1>8, <1>9
<1>19. pc' = [pc EXCEPT ![c] = "publish"] /\ tx[c].job \in Jobs
  BY <1>1, <1>3
<1> HIDE DEF j, cost, Jobs, Procs
<1>20. Commits(c, "publish", tx[c], saw[c])
  BY <1>14, <1>15, <1>16, <1>17, <1>18, <1>19 DEF Commits
<1>21. CommittedOK'
  BY <1>7, <1>9, <1>10, <1>11, <1>12, <1>13 DEF CommittedOK
<1> QED BY <1>0, <1>3, <1>20, <1>21, CommitStep

\* A request that ends without a commit leaves the queue alone.
LEMMA ClientReturnInv ==
  ASSUME IInv, NEW c \in Clients, UNCHANGED <<rows, job, bus>>, Return(c)
  PROVE  IInv'
<1>1. /\ TypeOK /\ MessagesNameStoredJobs /\ c \in Procs /\ c \notin Workers
      /\ UNCHANGED <<rows, job>>
      /\ job' = job /\ queue' = queue /\ held' = held /\ dead' = dead
  BY DEF IInv, bus
<1>2. MessagesNameStoredJobs'
  BY <1>1 DEF MessagesNameStoredJobs
<1>3. /\ queue' \subseteq Message /\ held' \in [Workers -> Message \cup {NoMessage}]
      /\ dead' \subseteq Jobs
  BY <1>1 DEF TypeOK
<1> HIDE DEF Jobs, Procs
<1> QED BY <1>1, <1>2, <1>3, ReturnStep

\* The listener sends the id of a job that is stored.
LEMMA PublishInv ==
  ASSUME IInv, NEW c \in Clients, publish(c)
  PROVE  IInv'
<1> DEFINE m == [job |-> tx[c].job, copy |-> 1, retries |-> 0]
<1>1. /\ TypeOK /\ MessagesNameStoredJobs /\ JobOK(c) /\ c \in Procs /\ c \notin Workers
      /\ UNCHANGED <<rows, job>> /\ Return(c) /\ pc[c] = "publish"
      /\ job' = job /\ queue' = queue \cup {m} /\ held' = held /\ dead' = dead
  BY DEF IInv, publish
<1>2. tx[c].job \in Jobs /\ job[tx[c].job].state # "none"
  BY <1>1 DEF JobOK
<1>3. m \in Message /\ m.job = tx[c].job
  BY <1>2 DEF Message
<1> HIDE DEF m
<1>4. MessagesNameStoredJobs'
  BY <1>1, <1>2, <1>3 DEF MessagesNameStoredJobs
<1>5. /\ queue' \subseteq Message /\ held' \in [Workers -> Message \cup {NoMessage}]
      /\ dead' \subseteq Jobs
  BY <1>1, <1>3 DEF TypeOK
<1> HIDE DEF Jobs, Procs
<1> QED BY <1>1, <1>4, <1>5, ReturnStep

-----------------------------------------------------------------------------
(* BudgetService.override_limit *)

\* The administrator's request locks the budget row and passes the check.
LEMMA OverrideLockInv ==
  ASSUME IInv, NEW c \in Clients, NEW raw \in Limits, override_lock(c, raw)
  PROVE  IInv'
<1> DEFINE call == Args(0, NoKey, normalized_cost(raw), "none", "none")
<1>0. TypeOK /\ c \in Procs /\ UNCHANGED <<rows, job, bus>> /\ budget' = budget
      /\ BudgetFree /\ CoversCommitments(budget, normalized_cost(raw))
      /\ Start(c, call, "commit_override") /\ saw' = [saw EXCEPT ![c] = budget]
  BY DEF IInv, override_lock, See, rows
<1>1. normalized_cost(raw) \in Int /\ normalized_cost(raw) >= 0
  BY NormalizedInt DEF override_lock, ValidCost
<1>2. call \in Call /\ call.job = 0 /\ call.cost = normalized_cost(raw)
  BY <1>1 DEF Args, Call, ErrorCodes
<1> HIDE DEF call
<1>3. pc'[c] = "commit_override" /\ tx'[c] = call /\ budget \in BudgetRow
  BY <1>0 DEF Start, Goto, TypeOK
<1>4. "commit_override" \in Steps \cap BudgetSteps
      /\ "commit_override" \notin ReservationSteps \cup JobSteps \cup KeySteps
               \cup CreateSteps \cup SettleSteps \cup ProcessSteps \cup WorkerSteps
  BY DEF Steps, ClientSteps, CreateSteps, BudgetSteps, ReservationSteps, JobSteps, KeySteps,
         SettleSteps, ProcessSteps, WorkerSteps
<1>5. OverrideOK(c)'
  BY <1>0, <1>1, <1>2, <1>3 DEF OverrideOK
<1>6. CreateOK(c)' /\ ReservationOK(c)' /\ JobOK(c)'
  BY <1>3, <1>4 DEF CreateOK, ReservationOK, JobOK
<1>7. \A q \in Procs : pc[q] \in CreateSteps => tx[q].job # call.job
  BY <1>2 DEF IInv, CreateOK
<1>8. \A q \in Procs : ~HoldsBudget(q)
  BY <1>0 DEF BudgetFree
<1> HIDE DEF Jobs, Procs
<1> QED BY <1>0, <1>2, <1>3, <1>4, <1>5, <1>6, <1>7, <1>8, StartStep

\* The new limit commits.
LEMMA OverrideCommitInv ==
  ASSUME IInv, NEW c \in Clients, override_commit(c)
  PROVE  IInv'
<1>0. TypeOK /\ c \in Procs /\ c \notin Workers /\ OverrideOK(c)
      /\ \A q \in Procs : CreateOK(q)
  BY DEF IInv
<1>1. /\ pc[c] = "commit_override" /\ pc' = [pc EXCEPT ![c] = "idle"]
      /\ budget' = AfterOverride(saw[c], tx[c].cost)
      /\ overrides' = overrides + (tx[c].cost - saw[c].hard_limit)
      /\ tx' = [tx EXCEPT ![c] = NoCall] /\ saw' = [saw EXCEPT ![c] = NoRow]
      /\ reservation' = reservation /\ ledger' = ledger /\ job' = job
      /\ queue' = queue /\ held' = held /\ dead' = dead
  BY DEF override_commit, Return, bus
<1>2. tx[c].cost \in Int /\ saw[c] \in BudgetRow /\ saw[c].hard_limit \in Int
      /\ overrides \in Int
  BY <1>0 DEF TypeOK, Call, BudgetRow
<1>3. AfterOverride(saw[c], tx[c].cost) \in BudgetRow
      /\ overrides + (tx[c].cost - saw[c].hard_limit) \in Int
  <2>1. AfterOverride(saw[c], tx[c].cost) \in BudgetRow
    BY <1>2, BudgetRowTypes
  <2> QED BY <1>2, <2>1
<1>4. TypeOK' /\ "idle" \in Steps
  BY <1>0, <1>1, <1>3, ConstantTypes DEF TypeOK, Steps
<1>5. JobHasReservation' /\ OneJobPerKey' /\ WorkerFailureReleases' /\ MessagesNameStoredJobs'
  BY <1>1 DEF IInv, JobHasReservation, OneJobPerKey, WorkerFailureReleases,
              MessagesNameStoredJobs
<1>6. \A w \in Workers : WorkerOK(w)'
  <2>1. \A w \in Workers : pc'[w] = pc[w] /\ tx'[w] = tx[w]
    BY <1>0, <1>1 DEF TypeOK
  <2> QED BY <1>1, <2>1 DEF IInv, WorkerOK
<1>7. HoldsBudget(c)
  BY <1>1 DEF HoldsBudget, BudgetSteps
<1>8. \A q \in Procs : q # c /\ pc[q] \in KeySteps => ~KeyTaken(tx[q].key)'
  <2>1. \A q \in Procs : q # c => tx'[q] = tx[q]
    BY <1>0, <1>1 DEF TypeOK
  <2> QED BY <1>0, <1>1, <2>1 DEF CreateOK, KeyTaken
<1>9. NoCall \in Call /\ NoRow \in BudgetRow /\ NoCall.job = 0
  BY ConstantTypes
<1>10. /\ \A i \in Jobs : reservation'[i] = reservation[i] /\ job'[i] = job[i]
       /\ pc' = [pc EXCEPT ![c] = "idle"]
       /\ tx' = [tx EXCEPT ![c] = NoCall] /\ saw' = [saw EXCEPT ![c] = NoRow]
  BY <1>1
<1> HIDE DEF Jobs, Procs
<1>11. Commits(c, "idle", NoCall, NoRow)
  BY <1>7, <1>8, <1>9, <1>10 DEF Commits
<1>12. CommittedOK'
  BY <1>4, <1>5, <1>6 DEF CommittedOK
<1> QED BY <1>0, <1>9, <1>11, <1>12, CommitStep

-----------------------------------------------------------------------------
(* BudgetService.settle *)

\* settle locks an active reservation that covers the actual cost.
LEMMA SettleLockInv ==
  ASSUME IInv, NEW c \in Clients, NEW j \in Jobs, NEW raw \in Actuals, settle_lock(c, j, raw)
  PROVE  IInv'
<1> DEFINE call == Args(j, NoKey, normalized_cost(raw), "none", "none")
<1>0. TypeOK /\ c \in Procs /\ UNCHANGED <<rows, job, bus>> /\ reservation' = reservation
      /\ ReservationFree(j) /\ Active(reservation[j]) /\ JobHasReservation
      /\ WithinReservation(reservation[j], normalized_cost(raw))
      /\ Start(c, call, "settle_budget") /\ saw' = saw
  BY DEF IInv, settle_lock, rows
<1>1. normalized_cost(raw) \in Int /\ normalized_cost(raw) >= 0
  BY NormalizedInt DEF settle_lock, ValidCost
<1>2. call \in Call /\ call.job = j /\ call.cost = normalized_cost(raw)
  BY <1>1 DEF Args, Call, ErrorCodes
<1> HIDE DEF call
<1>3. pc'[c] = "settle_budget" /\ tx'[c] = call /\ saw' = [saw EXCEPT ![c] = saw[c]]
      /\ saw[c] \in BudgetRow
  BY <1>0 DEF Start, Goto, TypeOK
<1>4. "settle_budget" \in Steps \cap ReservationSteps \cap SettleSteps
      /\ "settle_budget" \notin BudgetSteps \cup JobSteps \cup KeySteps
               \cup CreateSteps \cup ProcessSteps \cup WorkerSteps
  BY DEF Steps, ClientSteps, CreateSteps, BudgetSteps, ReservationSteps, JobSteps, KeySteps,
         SettleSteps, ProcessSteps, WorkerSteps
<1>5. ReservationOK(c)'
  BY <1>0, <1>1, <1>2, <1>3 DEF ReservationOK
<1>6. CreateOK(c)' /\ OverrideOK(c)' /\ JobOK(c)'
  BY <1>3, <1>4 DEF CreateOK, OverrideOK, JobOK
<1>7. \A q \in Procs : pc[q] \in CreateSteps => tx[q].job # call.job
  <2>1. job[j].state # "none"
    BY <1>0 DEF JobHasReservation, Active
  <2> QED BY <1>2, <2>1 DEF IInv, CreateOK
<1>8. \A q \in Procs : ~HoldsReservation(q, call.job)
  BY <1>0, <1>2 DEF ReservationFree
<1> HIDE DEF Jobs, Procs
<1> QED BY <1>0, <1>2, <1>3, <1>4, <1>5, <1>6, <1>7, <1>8, StartStep

\* settle locks the budget row too.
LEMMA SettleBudgetInv ==
  ASSUME IInv, NEW c \in Clients, settle_budget(c)
  PROVE  IInv'
<1>0. TypeOK /\ c \in Procs /\ UNCHANGED <<rows, job, tx, bus>> /\ BudgetFree
      /\ Goto(c, "settle_budget", "commit_settle") /\ ReservationOK(c) /\ Exclusive
  BY DEF IInv, settle_budget
<1>1. pc[c] = "settle_budget" /\ pc'[c] = "commit_settle"
      /\ saw' = [saw EXCEPT ![c] = budget] /\ budget \in BudgetRow
  BY <1>0 DEF Goto, TypeOK, settle_budget, See
<1>2. {"settle_budget", "commit_settle"} \subseteq Steps \cap ReservationSteps \cap SettleSteps
      /\ "commit_settle" \in BudgetSteps
      /\ "commit_settle" \notin JobSteps \cup KeySteps
               \cup CreateSteps \cup ProcessSteps \cup WorkerSteps
  BY DEF Steps, ClientSteps, CreateSteps, BudgetSteps, ReservationSteps, JobSteps, KeySteps,
         SettleSteps, ProcessSteps, WorkerSteps
<1>3. ReservationOK(c)'
  <2>1. tx' = tx /\ reservation' = reservation
    BY <1>0 DEF rows
  <2> QED BY <1>0, <1>1, <1>2, <2>1 DEF ReservationOK
<1>4. CreateOK(c)' /\ OverrideOK(c)' /\ JobOK(c)'
  BY <1>1, <1>2 DEF CreateOK, OverrideOK, JobOK
<1>5. \A q \in Procs : q # c => ~HoldsBudget(q) /\ ~HoldsReservation(q, tx[c].job)
  <2>1. HoldsReservation(c, tx[c].job) /\ tx[c].job \in Jobs
    BY <1>0, <1>1, <1>2 DEF HoldsReservation, ReservationOK
  <2> QED BY <1>0, <2>1 DEF BudgetFree, Exclusive
<1> HIDE DEF Jobs, Procs
<1> QED BY <1>0, <1>1, <1>2, <1>3, <1>4, <1>5, GotoStep

\* The settlement commits.
LEMMA SettleCommitInv ==
  ASSUME IInv, NEW c \in Clients, settle_commit(c)
  PROVE  IInv'
<1> DEFINE j == tx[c].job
           cost == tx[c].cost
           amount == reservation[j].amount
<1>0. TypeOK /\ c \in Procs /\ c \notin Workers /\ ReservationOK(c)
      /\ \A q \in Procs : CreateOK(q)
  BY DEF IInv
<1>1. /\ pc[c] = "commit_settle" /\ pc' = [pc EXCEPT ![c] = "idle"]
      /\ budget' = AfterSettle(saw[c], amount, cost)
      /\ reservation' = [reservation EXCEPT ![j] = Settled(reservation[j], cost)]
      /\ ledger' = [ledger EXCEPT ![j] = LogSettle(ledger[j], amount, cost)]
      /\ tx' = [tx EXCEPT ![c] = NoCall] /\ saw' = [saw EXCEPT ![c] = NoRow]
      /\ overrides' = overrides /\ job' = job
      /\ queue' = queue /\ held' = held /\ dead' = dead
  BY DEF settle_commit, Return, bus
<1>2. "commit_settle" \in ReservationSteps \cap SettleSteps \cap BudgetSteps
  BY DEF ReservationSteps, SettleSteps, BudgetSteps
<1>3. /\ j \in Jobs /\ Active(reservation[j]) /\ cost \in Nat /\ saw[c] \in BudgetRow
      /\ ledger[j] \in LedgerRow /\ reservation[j] \in ReservationRow
  BY <1>0, <1>1, <1>2 DEF ReservationOK, TypeOK, Call
<1>4. amount \in Int /\ cost \in Int
  BY <1>3 DEF ReservationRow
<1>5. AfterSettle(saw[c], amount, cost) \in BudgetRow
  BY <1>3, <1>4, BudgetRowTypes
<1>6. LogSettle(ledger[j], amount, cost) \in LedgerRow
  BY <1>3, <1>4, LedgerRowTypes
<1>7. Settled(reservation[j], cost) \in ReservationRow
      /\ Settled(reservation[j], cost).state = "settled"
  BY <1>3, ReservationRowTypes DEF Settled
<1>8. TypeOK'
  BY <1>0, <1>1, <1>3, <1>5, <1>6, <1>7, ConstantTypes DEF TypeOK, Steps
<1>9. /\ reservation'[j].state = "settled"
      /\ \A i \in Jobs : i # j => reservation'[i] = reservation[i]
  BY <1>0, <1>1, <1>3, <1>7 DEF TypeOK
<1>10. JobHasReservation' /\ WorkerFailureReleases'
  BY <1>1, <1>3, <1>9 DEF IInv, JobHasReservation, WorkerFailureReleases, Active
<1>11. OneJobPerKey' /\ MessagesNameStoredJobs'
  BY <1>1 DEF IInv, OneJobPerKey, MessagesNameStoredJobs
<1>12. \A w \in Workers : WorkerOK(w)'
  <2>1. \A w \in Workers : pc'[w] = pc[w] /\ tx'[w] = tx[w]
    BY <1>0, <1>1 DEF TypeOK
  <2> QED BY <1>1, <2>1 DEF IInv, WorkerOK
<1>13. HoldsBudget(c) /\ HoldsReservation(c, j)
  BY <1>1, <1>2 DEF HoldsBudget, HoldsReservation
<1>14. \A q \in Procs : q # c /\ pc[q] \in KeySteps => ~KeyTaken(tx[q].key)'
  <2>1. \A q \in Procs : q # c => tx'[q] = tx[q]
    BY <1>0, <1>1 DEF TypeOK
  <2> QED BY <1>0, <1>1, <2>1 DEF CreateOK, KeyTaken
<1>15. NoCall \in Call /\ NoRow \in BudgetRow /\ NoCall.job = 0
  BY ConstantTypes
<1>16. /\ \A i \in Jobs : reservation'[i] # reservation[i] => HoldsReservation(c, i)
       /\ \A i \in Jobs : job'[i] = job[i]
       /\ pc' = [pc EXCEPT ![c] = "idle"]
       /\ tx' = [tx EXCEPT ![c] = NoCall] /\ saw' = [saw EXCEPT ![c] = NoRow]
  BY <1>1, <1>9, <1>13
<1> HIDE DEF j, cost, amount, Jobs, Procs
<1>17. Commits(c, "idle", NoCall, NoRow)
  BY <1>13, <1>14, <1>15, <1>16 DEF Commits
<1>18. CommittedOK'
  BY <1>8, <1>10, <1>11, <1>12 DEF CommittedOK
<1> QED BY <1>0, <1>15, <1>17, <1>18, CommitStep

-----------------------------------------------------------------------------
(* JobService.transition *)

\* transition locks the job and finds that the new state is allowed.
LEMMA TransitionLockInv ==
  ASSUME IInv, NEW c \in Clients, NEW j \in Jobs, NEW t \in Targets,
         NEW code \in {"none", "caller_code"}, transition_lock(c, j, t, code)
  PROVE  IInv'
<1> DEFINE call == Args(j, NoKey, 0, t, code)
<1>0. TypeOK /\ c \in Procs /\ UNCHANGED <<rows, job, bus>> /\ job' = job
      /\ JobFree(j) /\ job[j].state # "none" /\ ensure_job_transition(job[j].state, t)
      /\ Start(c, call, "commit_transition") /\ saw' = saw
  BY DEF IInv, transition_lock
<1>1. t \in JobState /\ code \notin WorkerCodes
  BY DEF JobState, WorkerCodes
<1>2. call \in Call /\ call.job = j /\ call.target = t /\ call.error_code = code
  BY <1>1 DEF Args, Call, ErrorCodes
<1> HIDE DEF call
<1>3. pc'[c] = "commit_transition" /\ tx'[c] = call /\ saw' = [saw EXCEPT ![c] = saw[c]]
      /\ saw[c] \in BudgetRow
  BY <1>0 DEF Start, Goto, TypeOK
<1>4. "commit_transition" \in Steps \cap JobSteps
      /\ "commit_transition" \notin BudgetSteps \cup ReservationSteps \cup KeySteps
               \cup CreateSteps \cup SettleSteps \cup ProcessSteps \cup WorkerSteps
  BY DEF Steps, ClientSteps, CreateSteps, BudgetSteps, ReservationSteps, JobSteps, KeySteps,
         SettleSteps, ProcessSteps, WorkerSteps
<1>5. JobOK(c)'
  BY <1>0, <1>1, <1>2, <1>3, <1>4 DEF JobOK
<1>6. CreateOK(c)' /\ OverrideOK(c)' /\ ReservationOK(c)'
  BY <1>3, <1>4 DEF CreateOK, OverrideOK, ReservationOK
<1>7. \A q \in Procs : pc[q] \in CreateSteps => tx[q].job # call.job
  BY <1>0, <1>2 DEF IInv, CreateOK
<1>8. \A q \in Procs : ~HoldsJob(q, call.job)
  BY <1>0, <1>2 DEF JobFree
<1> HIDE DEF Jobs, Procs
<1> QED BY <1>0, <1>2, <1>3, <1>4, <1>5, <1>6, <1>7, <1>8, StartStep

\* A state with a successor is not the state in which the worker leaves a job.
LEMMA TransitionSource ==
  ASSUME NEW s \in JobState, NEW t, ensure_job_transition(s, t)
  PROVE  s \notin TERMINAL_JOB_STATES /\ s # "failed"
BY DEF ensure_job_transition, ALLOWED_JOB_TRANSITIONS, JobState, TERMINAL_JOB_STATES

\* The new state commits.
LEMMA TransitionCommitInv ==
  ASSUME IInv, NEW c \in Clients, transition_commit(c)
  PROVE  IInv'
<1> DEFINE j == tx[c].job
           row == [state |-> tx[c].target, key |-> job[j].key,
                   error_code |-> tx[c].error_code]
<1>0. TypeOK /\ c \in Procs /\ c \notin Workers /\ JobOK(c)
      /\ \A q \in Procs : CreateOK(q)
  BY DEF IInv
<1>1. /\ pc[c] = "commit_transition" /\ pc' = [pc EXCEPT ![c] = "idle"]
      /\ job' = [job EXCEPT ![j] = row]
      /\ tx' = [tx EXCEPT ![c] = NoCall] /\ saw' = [saw EXCEPT ![c] = NoRow]
      /\ budget' = budget /\ reservation' = reservation /\ ledger' = ledger
      /\ overrides' = overrides
      /\ queue' = queue /\ held' = held /\ dead' = dead
  BY DEF transition_commit, Return, bus, rows
<1>2. "commit_transition" \in JobSteps
  BY DEF JobSteps
<1>3. /\ j \in Jobs /\ job[j] \in JobRow /\ job[j].state # "none" /\ tx[c].target \in JobState
      /\ ensure_job_transition(job[j].state, tx[c].target)
      /\ tx[c].error_code \notin WorkerCodes /\ tx[c].error_code \in ErrorCodes
  BY <1>0, <1>1 DEF JobOK, TypeOK, Call
<1>4. /\ row \in JobRow /\ row.state = tx[c].target /\ row.key = job[j].key
      /\ row.error_code = tx[c].error_code /\ row.state # "none"
  BY <1>3 DEF JobRow, JobState
<1> HIDE DEF row
<1>5. TypeOK'
  BY <1>0, <1>1, <1>3, <1>4, ConstantTypes DEF TypeOK, Steps
<1>6. job'[j] = row /\ \A i \in Jobs : i # j => job'[i] = job[i]
  BY <1>0, <1>1, <1>3 DEF TypeOK
<1>7. JobHasReservation'
  BY <1>1, <1>3, <1>4, <1>6 DEF IInv, JobHasReservation
<1>8. WorkerFailureReleases'
  BY <1>1, <1>3, <1>4, <1>6 DEF IInv, WorkerFailureReleases
<1>9. OneJobPerKey'
  BY <1>3, <1>4, <1>6 DEF IInv, OneJobPerKey
<1>10. MessagesNameStoredJobs'
  BY <1>1, <1>3, <1>4, <1>6 DEF IInv, MessagesNameStoredJobs
<1>11. \A w \in Workers : WorkerOK(w)'
  <2>1. \A w \in Workers : pc'[w] = pc[w] /\ tx'[w] = tx[w]
    BY <1>0, <1>1 DEF TypeOK
  <2> QED BY <1>1, <2>1 DEF IInv, WorkerOK
<1>12. HoldsJob(c, j)
  BY <1>1, <1>2 DEF HoldsJob
<1>14. \A q \in Procs : q # c /\ pc[q] \in KeySteps => ~KeyTaken(tx[q].key)'
  <2>1. \A q \in Procs : q # c => tx'[q] = tx[q]
    BY <1>0, <1>1 DEF TypeOK
  <2> QED BY <1>0, <1>3, <1>4, <1>6, <2>1 DEF CreateOK, KeyTaken
<1>15. NoCall \in Call /\ NoRow \in BudgetRow /\ NoCall.job = 0
  BY ConstantTypes
<1>16. /\ \A i \in Jobs : job'[i] # job[i] => HoldsJob(c, i)
       /\ \A i \in Jobs : job[i].state # "none" => job'[i].state # "none"
       /\ \A i \in Jobs : reservation'[i] = reservation[i]
       /\ budget' = budget
       /\ pc' = [pc EXCEPT ![c] = "idle"]
       /\ tx' = [tx EXCEPT ![c] = NoCall] /\ saw' = [saw EXCEPT ![c] = NoRow]
  BY <1>1, <1>4, <1>6, <1>12
<1> HIDE DEF j, Jobs, Procs
<1>17. Commits(c, "idle", NoCall, NoRow)
  BY <1>14, <1>15, <1>16 DEF Commits
<1>18. CommittedOK'
  BY <1>5, <1>7, <1>8, <1>9, <1>10, <1>11 DEF CommittedOK
<1> QED BY <1>0, <1>15, <1>17, <1>18, CommitStep

-----------------------------------------------------------------------------
(* process_job *)

\* A worker receives the id of a stored job.
LEMMA ReceiveInv ==
  ASSUME IInv, NEW w \in Workers, NEW m \in queue, receive(w, m)
  PROVE  IInv'
<1> DEFINE call == Args(m.job, NoKey, 0, "none", "none")
<1>0. TypeOK /\ w \in Procs /\ UNCHANGED <<rows, job>> /\ job' = job /\ saw' = saw
      /\ pc' = [pc EXCEPT ![w] = "lock_job"] /\ tx' = [tx EXCEPT ![w] = call]
      /\ queue' = queue \ {m} /\ held' = [held EXCEPT ![w] = m] /\ dead' = dead
      /\ MessagesNameStoredJobs /\ \A v \in Workers : WorkerOK(v)
  BY DEF IInv, receive, Start, Goto
<1>1. m \in Message /\ m.job \in Jobs /\ job[m.job].state # "none"
  BY <1>0 DEF TypeOK, Message, MessagesNameStoredJobs
<1>2. call \in Call /\ call.job = m.job
  BY <1>1 DEF Args, Call, ErrorCodes
<1> HIDE DEF call
<1>3. /\ pc'[w] = "lock_job" /\ tx'[w] = call /\ held'[w] = m
      /\ saw' = [saw EXCEPT ![w] = saw[w]] /\ saw[w] \in BudgetRow
      /\ \A v \in Procs : v # w => pc'[v] = pc[v] /\ tx'[v] = tx[v]
      /\ \A v \in Workers : v # w => held'[v] = held[v]
  BY <1>0 DEF TypeOK
<1>4. "lock_job" \in Steps \cap WorkerSteps
      /\ "lock_job" \notin BudgetSteps \cup ReservationSteps \cup JobSteps \cup KeySteps
               \cup CreateSteps \cup SettleSteps \cup ProcessSteps
               \cup {"commit_create", "commit_override", "commit_transition", "publish"}
  BY DEF Steps, ClientSteps, CreateSteps, BudgetSteps, ReservationSteps, JobSteps, KeySteps,
         SettleSteps, ProcessSteps, WorkerSteps
<1>5. CreateOK(w)' /\ OverrideOK(w)' /\ ReservationOK(w)'
  BY <1>3, <1>4 DEF CreateOK, OverrideOK, ReservationOK
<1>6. JobOK(w)'
  BY <1>0, <1>1, <1>2, <1>3, <1>4 DEF JobOK
<1>7. \A v \in Workers : WorkerOK(v)'
  BY <1>0, <1>1, <1>2, <1>3 DEF WorkerOK
<1>8. /\ queue' \subseteq Message /\ held' \in [Workers -> Message \cup {NoMessage}]
      /\ dead' \subseteq Jobs
  BY <1>0, <1>1 DEF TypeOK
<1>9. MessagesNameStoredJobs'
  BY <1>0, <1>1, <1>3 DEF MessagesNameStoredJobs
<1>10. \A q \in Procs : pc[q] \in CreateSteps => tx[q].job # call.job
  BY <1>1, <1>2 DEF IInv, CreateOK
<1>11. /\ pc' = [pc EXCEPT ![w] = "lock_job"] /\ tx' = [tx EXCEPT ![w] = call]
       /\ saw' = [saw EXCEPT ![w] = saw[w]] /\ UNCHANGED <<rows, job>>
       /\ w \in Procs /\ call \in Call /\ saw[w] \in BudgetRow /\ "lock_job" \in Steps
  BY <1>0, <1>2, <1>3, <1>4
<1>12. "lock_job" \notin BudgetSteps \cup ReservationSteps \cup JobSteps \cup KeySteps
  BY <1>4
<1> HIDE DEF Jobs, Procs
<1> QED BY <1>5, <1>6, <1>7, <1>8, <1>9, <1>10, <1>11, <1>12, LocalStep

\* The worker locks a job that is still queued.
LEMMA ProcessLockJobInv ==
  ASSUME IInv, NEW w \in Workers, process_lock_job(w)
  PROVE  IInv'
<1>0. TypeOK /\ w \in Procs /\ UNCHANGED <<rows, job, tx, bus>> /\ JobFree(tx[w].job)
      /\ Goto(w, "lock_job", "lock_reservation") /\ JobOK(w)
      /\ job[tx[w].job].state = "queued" /\ saw' = saw /\ job' = job /\ tx' = tx
  BY DEF IInv, process_lock_job
<1>1. pc[w] = "lock_job" /\ pc'[w] = "lock_reservation"
      /\ saw' = [saw EXCEPT ![w] = saw[w]] /\ saw[w] \in BudgetRow
  BY <1>0 DEF Goto, TypeOK
<1>2. /\ {"lock_job", "lock_reservation"} \subseteq Steps \cap WorkerSteps
      /\ "lock_reservation" \in JobSteps \cap ProcessSteps
      /\ "lock_reservation" \notin BudgetSteps \cup ReservationSteps \cup KeySteps
               \cup CreateSteps \cup SettleSteps
               \cup {"commit_create", "commit_override", "commit_transition"}
  BY DEF Steps, ClientSteps, CreateSteps, BudgetSteps, ReservationSteps, JobSteps, KeySteps,
         SettleSteps, ProcessSteps, WorkerSteps
<1>3. JobOK(w)'
  BY <1>0, <1>1, <1>2 DEF JobOK
<1>4. CreateOK(w)' /\ OverrideOK(w)' /\ ReservationOK(w)'
  BY <1>1, <1>2 DEF CreateOK, OverrideOK, ReservationOK
<1>5. \A q \in Procs : ~HoldsJob(q, tx[w].job)
  BY <1>0 DEF JobFree
<1> HIDE DEF Jobs, Procs
<1> QED BY <1>0, <1>1, <1>2, <1>3, <1>4, <1>5, GotoStep

\* The worker leaves a job alone that is no longer queued.
LEMMA ProcessSkipInv ==
  ASSUME IInv, NEW w \in Workers, process_skip(w)
  PROVE  IInv'
<1>0. TypeOK /\ w \in Procs /\ UNCHANGED <<rows, job, tx, bus>>
      /\ Goto(w, "lock_job", "ack") /\ JobOK(w) /\ saw' = saw /\ job' = job /\ tx' = tx
  BY DEF IInv, process_skip
<1>1. pc[w] = "lock_job" /\ pc'[w] = "ack"
      /\ saw' = [saw EXCEPT ![w] = saw[w]] /\ saw[w] \in BudgetRow
  BY <1>0 DEF Goto, TypeOK
<1>2. /\ {"lock_job", "ack"} \subseteq Steps \cap WorkerSteps
      /\ "ack" \notin BudgetSteps \cup ReservationSteps \cup KeySteps \cup JobSteps
               \cup CreateSteps \cup SettleSteps \cup ProcessSteps
               \cup {"commit_create", "commit_override", "commit_transition"}
  BY DEF Steps, ClientSteps, CreateSteps, BudgetSteps, ReservationSteps, JobSteps, KeySteps,
         SettleSteps, ProcessSteps, WorkerSteps
<1>3. JobOK(w)'
  BY <1>0, <1>1, <1>2 DEF JobOK
<1>4. CreateOK(w)' /\ OverrideOK(w)' /\ ReservationOK(w)'
  BY <1>1, <1>2 DEF CreateOK, OverrideOK, ReservationOK
<1> HIDE DEF Jobs, Procs
<1> QED BY <1>0, <1>1, <1>2, <1>3, <1>4, GotoStep

\* release locks an active reservation, under the lock of its job.
LEMMA ProcessLockReservationInv ==
  ASSUME IInv, NEW w \in Workers, process_lock_reservation(w)
  PROVE  IInv'
<1>0. TypeOK /\ w \in Procs /\ UNCHANGED <<rows, job, tx, bus>> /\ ReservationFree(tx[w].job)
      /\ Goto(w, "lock_reservation", "lock_budget") /\ JobOK(w) /\ Exclusive
      /\ Active(reservation[tx[w].job]) /\ saw' = saw /\ job' = job /\ tx' = tx
      /\ reservation' = reservation
  BY DEF IInv, process_lock_reservation, rows
<1>1. pc[w] = "lock_reservation" /\ pc'[w] = "lock_budget"
      /\ saw' = [saw EXCEPT ![w] = saw[w]] /\ saw[w] \in BudgetRow
  BY <1>0 DEF Goto, TypeOK
<1>2. /\ {"lock_reservation", "lock_budget"} \subseteq Steps \cap WorkerSteps \cap JobSteps
                                                         \cap ProcessSteps
      /\ "lock_budget" \in ReservationSteps
      /\ "lock_budget" \notin BudgetSteps \cup KeySteps \cup CreateSteps \cup SettleSteps
               \cup {"commit_create", "commit_override", "commit_transition"}
  BY DEF Steps, ClientSteps, CreateSteps, BudgetSteps, ReservationSteps, JobSteps, KeySteps,
         SettleSteps, ProcessSteps, WorkerSteps
<1>3. tx[w].job \in Jobs /\ HoldsJob(w, tx[w].job)
  BY <1>0, <1>1, <1>2 DEF JobOK, HoldsJob
<1>4. JobOK(w)'
  BY <1>0, <1>1, <1>2 DEF JobOK
<1>5. ReservationOK(w)'
  BY <1>0, <1>1, <1>2, <1>3 DEF ReservationOK
<1>6. CreateOK(w)' /\ OverrideOK(w)'
  BY <1>1, <1>2 DEF CreateOK, OverrideOK
<1>7. \A q \in Procs : q # w => ~HoldsReservation(q, tx[w].job) /\ ~HoldsJob(q, tx[w].job)
  BY <1>0, <1>3 DEF ReservationFree, Exclusive
<1> HIDE DEF Jobs, Procs
<1> QED BY <1>0, <1>1, <1>2, <1>4, <1>5, <1>6, <1>7, GotoStep

\* release locks the budget row, under the locks of job and reservation.
LEMMA ProcessLockBudgetInv ==
  ASSUME IInv, NEW w \in Workers, process_lock_budget(w)
  PROVE  IInv'
<1>0. TypeOK /\ w \in Procs /\ UNCHANGED <<rows, job, tx, bus>> /\ BudgetFree
      /\ Goto(w, "lock_budget", "commit_job") /\ JobOK(w) /\ ReservationOK(w) /\ Exclusive
      /\ job' = job /\ tx' = tx /\ reservation' = reservation
  BY DEF IInv, process_lock_budget, rows
<1>1. pc[w] = "lock_budget" /\ pc'[w] = "commit_job"
      /\ saw' = [saw EXCEPT ![w] = budget] /\ budget \in BudgetRow
  BY <1>0 DEF Goto, TypeOK, process_lock_budget, See
<1>2. /\ {"lock_budget", "commit_job"} \subseteq Steps \cap WorkerSteps \cap JobSteps
                                             \cap ProcessSteps \cap ReservationSteps
      /\ "commit_job" \notin KeySteps \cup CreateSteps \cup SettleSteps
               \cup {"commit_create", "commit_override", "commit_transition"}
  BY DEF Steps, ClientSteps, CreateSteps, BudgetSteps, ReservationSteps, JobSteps, KeySteps,
         SettleSteps, ProcessSteps, WorkerSteps
<1>3. tx[w].job \in Jobs /\ HoldsJob(w, tx[w].job) /\ HoldsReservation(w, tx[w].job)
  BY <1>0, <1>1, <1>2 DEF JobOK, HoldsJob, HoldsReservation
<1>4. JobOK(w)'
  BY <1>0, <1>1, <1>2 DEF JobOK
<1>5. ReservationOK(w)'
  BY <1>0, <1>1, <1>2, <1>3 DEF ReservationOK
<1>6. CreateOK(w)' /\ OverrideOK(w)'
  BY <1>1, <1>2 DEF CreateOK, OverrideOK
<1>7. \A q \in Procs : q # w => /\ ~HoldsBudget(q)
                                /\ ~HoldsReservation(q, tx[w].job)
                                /\ ~HoldsJob(q, tx[w].job)
  BY <1>0, <1>3 DEF BudgetFree, Exclusive
<1> HIDE DEF Jobs, Procs
<1> QED BY <1>0, <1>1, <1>2, <1>4, <1>5, <1>6, <1>7, GotoStep

\* The worker's transaction commits: the job failed and its money is released.
LEMMA ProcessCommitInv ==
  ASSUME IInv, NEW w \in Workers, process_commit(w)
  PROVE  IInv'
<1> DEFINE j == tx[w].job
           amount == reservation[j].amount
           code == IF j \in Tainted THEN "provider_payload_not_allowed"
                                    ELSE "pipeline_not_configured"
           row == [state |-> "failed", key |-> job[j].key, error_code |-> code]
<1>0. TypeOK /\ w \in Procs /\ ReservationOK(w) /\ JobOK(w)
      /\ \A q \in Procs : CreateOK(q)
  BY DEF IInv
<1>1. /\ pc[w] = "commit_job" /\ pc' = [pc EXCEPT ![w] = "ack"]
      /\ job' = [job EXCEPT ![j] = row]
      /\ budget' = AfterRelease(saw[w], amount)
      /\ reservation' = [reservation EXCEPT ![j] = Released(reservation[j])]
      /\ ledger' = [ledger EXCEPT ![j] = LogRelease(ledger[j], amount)]
      /\ overrides' = overrides /\ tx' = tx /\ saw' = saw
      /\ queue' = queue /\ held' = held /\ dead' = dead
  BY DEF process_commit, Goto, bus
<1>2. "commit_job" \in ReservationSteps \cap BudgetSteps \cap JobSteps \cap WorkerSteps
      /\ "ack" \in Steps
  BY DEF ReservationSteps, BudgetSteps, JobSteps, WorkerSteps, Steps
<1>3. /\ j \in Jobs /\ Active(reservation[j]) /\ saw[w] \in BudgetRow /\ tx[w] \in Call
      /\ ledger[j] \in LedgerRow /\ reservation[j] \in ReservationRow
      /\ job[j] \in JobRow /\ job[j].state # "none"
  BY <1>0, <1>1, <1>2 DEF ReservationOK, JobOK, TypeOK
<1>4. amount \in Int /\ 0 \in Nat /\ 0 \in Int
  BY <1>3 DEF ReservationRow
<1>5. AfterRelease(saw[w], amount) \in BudgetRow
  BY <1>3, <1>4, BudgetRowTypes
<1>6. LogRelease(ledger[j], amount) \in LedgerRow
  BY <1>3, <1>4, LedgerRowTypes
<1>7. Released(reservation[j]) \in ReservationRow
      /\ Released(reservation[j]).state = "released"
  BY <1>3, <1>4, ReservationRowTypes DEF Released
<1>8. row \in JobRow /\ row.state = "failed" /\ row.key = job[j].key
  BY <1>3 DEF JobRow, JobState, ErrorCodes, WorkerCodes
<1> HIDE DEF row
<1>9. TypeOK'
  BY <1>0, <1>1, <1>2, <1>3, <1>5, <1>6, <1>7, <1>8 DEF TypeOK
<1>10. /\ job'[j] = row /\ reservation'[j].state = "released"
       /\ \A i \in Jobs : i # j => job'[i] = job[i] /\ reservation'[i] = reservation[i]
  BY <1>0, <1>1, <1>3, <1>7 DEF TypeOK
<1>11. JobHasReservation' /\ WorkerFailureReleases'
  BY <1>8, <1>10 DEF IInv, JobHasReservation, WorkerFailureReleases
<1>12. OneJobPerKey'
  BY <1>3, <1>8, <1>10 DEF IInv, OneJobPerKey
<1>13. MessagesNameStoredJobs'
  BY <1>1, <1>8, <1>10 DEF IInv, MessagesNameStoredJobs
<1>14. \A v \in Workers : WorkerOK(v)'
  <2>1. \A v \in Workers : pc'[v] \in WorkerSteps => pc[v] \in WorkerSteps
    BY <1>0, <1>1, <1>2 DEF TypeOK
  <2> QED BY <1>1, <2>1 DEF IInv, WorkerOK
<1>15. HoldsBudget(w) /\ HoldsReservation(w, j) /\ HoldsJob(w, j)
  BY <1>1, <1>2 DEF HoldsBudget, HoldsReservation, HoldsJob
<1>16. \A q \in Procs : q # w /\ pc[q] \in KeySteps => ~KeyTaken(tx[q].key)'
  BY <1>0, <1>1, <1>3, <1>8, <1>10 DEF CreateOK, KeyTaken
<1>17. tx' = [tx EXCEPT ![w] = tx[w]] /\ saw' = [saw EXCEPT ![w] = saw[w]]
       /\ pc' = [pc EXCEPT ![w] = "ack"]
  BY <1>0, <1>1 DEF TypeOK
<1>18. tx[w].job \in Jobs /\ job'[tx[w].job].state # "none"
  BY <1>3, <1>8, <1>10
<1>19. /\ \A i \in Jobs : reservation'[i] # reservation[i] => HoldsReservation(w, i)
       /\ \A i \in Jobs : job'[i] # job[i] => HoldsJob(w, i)
       /\ \A i \in Jobs : job[i].state # "none" => job'[i].state # "none"
  BY <1>8, <1>10, <1>15
<1> HIDE DEF j, amount, code, Jobs, Procs
<1>20. Commits(w, "ack", tx[w], saw[w])
  BY <1>15, <1>16, <1>17, <1>18, <1>19 DEF Commits
<1>21. CommittedOK'
  BY <1>9, <1>11, <1>12, <1>13, <1>14 DEF CommittedOK
<1> QED BY <1>0, <1>3, <1>20, <1>21, CommitStep

\* A worker's step that only gives its message up, or sends a message of the
\* same job back to the queue, names no new job.
LEMMA GiveUpStep ==
  ASSUME IInv, UNCHANGED <<rows, job>>, NEW w \in Workers, pc[w] \in WorkerSteps,
         Return(w), held' = [held EXCEPT ![w] = NoMessage],
         \A m \in queue' : m \in queue \/ (m \in Message /\ m.job = held[w].job),
         \A j \in dead' : j \in dead \/ j = held[w].job
  PROVE  IInv'
<1>1. TypeOK /\ MessagesNameStoredJobs /\ JobOK(w) /\ WorkerOK(w) /\ w \in Procs /\ job' = job
  BY DEF IInv
<1>2. held[w] \in Message /\ held[w].job \in Jobs /\ job[held[w].job].state # "none"
  BY <1>1 DEF WorkerOK, JobOK
<1>3. NoMessage.job \notin Jobs /\ held'[w] = NoMessage
      /\ \A v \in Workers : v # w => held'[v] = held[v]
  BY <1>1 DEF TypeOK, NoMessage
<1>4. queue' \subseteq Message /\ dead' \subseteq Jobs
  BY <1>1, <1>2 DEF TypeOK
<1>5. held' \in [Workers -> Message \cup {NoMessage}]
  BY <1>1 DEF TypeOK
<1>6. MessagesNameStoredJobs'
  BY <1>1, <1>2, <1>3 DEF MessagesNameStoredJobs
<1> HIDE DEF Jobs, Procs
<1> QED BY <1>1, <1>3, <1>4, <1>5, <1>6, ReturnStep

\* A copy of a message with another counter is a message of the same job.
LEMMA MessageUpdates ==
  ASSUME NEW m \in Message
  PROVE  /\ m.retries < MaxRetries =>
              /\ [m EXCEPT !.retries = @ + 1] \in Message
              /\ [m EXCEPT !.retries = @ + 1].job = m.job
         /\ m.copy < MaxCopies =>
              /\ [m EXCEPT !.copy = @ + 1] \in Message
              /\ [m EXCEPT !.copy = @ + 1].job = m.job
<1>1. m.job \in Jobs /\ m.copy \in 1..MaxCopies /\ m.retries \in 0..MaxRetries
      /\ m = [job |-> m.job, copy |-> m.copy, retries |-> m.retries]
  BY DEF Message
<1>2. ASSUME m.retries < MaxRetries
      PROVE  /\ [m EXCEPT !.retries = @ + 1] \in Message
             /\ [m EXCEPT !.retries = @ + 1].job = m.job
  BY <1>1, <1>2 DEF Message
<1>3. ASSUME m.copy < MaxCopies
      PROVE  /\ [m EXCEPT !.copy = @ + 1] \in Message
             /\ [m EXCEPT !.copy = @ + 1].job = m.job
  BY <1>1, <1>3 DEF Message
<1> QED BY <1>2, <1>3

\* The actor raises.
LEMMA RaiseInv ==
  ASSUME IInv, NEW w \in Workers, pc[w] \in WorkerSteps, Raise(w)
  PROVE  IInv'
<1>1. UNCHANGED <<rows, job>> /\ Return(w) /\ held' = [held EXCEPT ![w] = NoMessage]
      /\ held[w] \in Message
  BY DEF Raise, IInv, WorkerOK
<1>2. \A m \in queue' : m \in queue \/ (m \in Message /\ m.job = held[w].job)
  <2>1. CASE held[w].retries < MaxRetries
    <3>1. queue' = queue \cup {[held[w] EXCEPT !.retries = @ + 1]}
      BY <2>1 DEF Raise
    <3>2. /\ [held[w] EXCEPT !.retries = @ + 1] \in Message
          /\ [held[w] EXCEPT !.retries = @ + 1].job = held[w].job
      BY <1>1, <2>1, MessageUpdates
    <3> QED BY <3>1, <3>2
  <2>2. CASE ~(held[w].retries < MaxRetries)
    BY <2>2 DEF Raise
  <2> QED BY <2>1, <2>2
<1>3. \A j \in dead' : j \in dead \/ j = held[w].job
  BY DEF Raise
<1> HIDE DEF Jobs, Procs
<1> QED BY <1>1, <1>2, <1>3, GiveUpStep

\* A worker acknowledges its message, or dies.
LEMMA AckInv ==
  ASSUME IInv, NEW w \in Workers, ack(w) \/ worker_dies(w)
  PROVE  IInv'
<1>1. UNCHANGED <<rows, job>> /\ Return(w) /\ held' = [held EXCEPT ![w] = NoMessage]
      /\ pc[w] \in WorkerSteps
  BY DEF ack, worker_dies, WorkerSteps
<1>2. held[w] \in Message
  BY <1>1 DEF IInv, WorkerOK
<1>3. \A m \in queue' : m \in queue \/ (m \in Message /\ m.job = held[w].job)
  BY <1>2 DEF ack, worker_dies
<1>4. \A j \in dead' : j \in dead \/ j = held[w].job
  BY DEF ack, worker_dies
<1> HIDE DEF Jobs, Procs
<1> QED BY <1>1, <1>3, <1>4, GiveUpStep

\* The broker delivers the message of a slow worker again.
LEMMA RedeliverInv ==
  ASSUME IInv, NEW w \in Workers, redeliver(w)
  PROVE  IInv'
<1> DEFINE m == [held[w] EXCEPT !.copy = @ + 1]
<1>1. /\ TypeOK /\ MessagesNameStoredJobs /\ JobOK(w) /\ WorkerOK(w) /\ w \in Procs
      /\ pc[w] \in WorkerSteps /\ held[w].copy < MaxCopies /\ queue' = queue \cup {m}
      /\ UNCHANGED <<rows, job>>
      /\ budget' = budget /\ reservation' = reservation /\ ledger' = ledger
      /\ overrides' = overrides /\ job' = job
      /\ pc' = pc /\ tx' = tx /\ saw' = saw /\ held' = held /\ dead' = dead
  BY DEF IInv, redeliver, rows
<1>2. held[w] \in Message /\ held[w].job \in Jobs /\ job[held[w].job].state # "none"
  BY <1>1 DEF WorkerOK, JobOK
<1>3. m \in Message /\ m.job = held[w].job
  BY <1>1, <1>2, MessageUpdates
<1> HIDE DEF m
<1>4. TypeOK'
  BY <1>1, <1>3 DEF TypeOK
<1>5. MessagesNameStoredJobs'
  BY <1>1, <1>2, <1>3 DEF MessagesNameStoredJobs
<1>6. Exclusive' /\ ReadIsCurrent' /\ JobHasReservation' /\ OneJobPerKey'
      /\ WorkerFailureReleases'
  BY <1>1 DEF IInv, Exclusive, ReadIsCurrent, JobHasReservation, OneJobPerKey,
              WorkerFailureReleases, HoldsBudget, HoldsReservation, HoldsJob, HoldsKey
<1>7. ASSUME NEW p \in Procs
      PROVE  CreateOK(p)' /\ OverrideOK(p)' /\ ReservationOK(p)' /\ JobOK(p)'
  <2>1. CreateOK(p) /\ OverrideOK(p) /\ ReservationOK(p) /\ JobOK(p)
    BY DEF IInv
  <2>2. CreateOK(p)'
    BY <1>1, <2>1 DEF CreateOK, KeyTaken
  <2>3. OverrideOK(p)' /\ ReservationOK(p)' /\ JobOK(p)'
    BY <1>1, <2>1 DEF OverrideOK, ReservationOK, JobOK
  <2> QED BY <2>2, <2>3
<1>8. \A v \in Workers : WorkerOK(v)'
  BY <1>1 DEF IInv, WorkerOK
<1> QED BY <1>4, <1>5, <1>6, <1>7, <1>8 DEF IInv

-----------------------------------------------------------------------------
(* The invariant *)

\* The initial state has no jobs, no messages and no running calls.
LEMMA InitInv == Init => IInv
<1> SUFFICES ASSUME Init PROVE IInv
  OBVIOUS
<1>1. TypeOK
  <2>1. /\ budget \in BudgetRow /\ overrides \in Int
        /\ reservation \in [Jobs -> ReservationRow] /\ ledger \in [Jobs -> LedgerRow]
    BY DEF Init, BudgetRow, ReservationRow, LedgerRow, NoReservation, NoEntries
  <2>2. job \in [Jobs -> JobRow]
    BY DEF Init, JobRow, NoJob, ErrorCodes
  <2>3. pc \in [Procs -> Steps] /\ tx \in [Procs -> Call] /\ saw \in [Procs -> BudgetRow]
    BY ConstantTypes DEF Init, Steps
  <2>4. /\ queue \subseteq Message /\ dead \subseteq Jobs
        /\ held \in [Workers -> Message \cup {NoMessage}]
    BY DEF Init
  <2> QED BY <2>1, <2>2, <2>3, <2>4 DEF TypeOK
<1>2. \A p \in Procs : pc[p] = "idle"
  BY DEF Init
<1>3. "idle" \notin BudgetSteps \cup ReservationSteps \cup JobSteps \cup KeySteps
                    \cup CreateSteps \cup SettleSteps \cup ProcessSteps \cup WorkerSteps
  BY DEF BudgetSteps, ReservationSteps, JobSteps, KeySteps, CreateSteps, SettleSteps,
         ProcessSteps, WorkerSteps
<1>4. Exclusive /\ ReadIsCurrent
  BY <1>2, <1>3 DEF Exclusive, ReadIsCurrent, HoldsBudget, HoldsReservation, HoldsJob, HoldsKey
<1>5. \A p \in Procs : CreateOK(p) /\ OverrideOK(p) /\ ReservationOK(p) /\ JobOK(p)
  BY <1>2, <1>3 DEF CreateOK, OverrideOK, ReservationOK, JobOK
<1>6. \A w \in Workers : WorkerOK(w)
  BY <1>2, <1>3 DEF WorkerOK
<1>7. \A j \in Jobs : /\ job[j].state = "none" /\ job[j].error_code = "none"
                      /\ reservation[j].state = "none"
  BY DEF Init, NoJob, NoReservation
<1>8. JobHasReservation /\ OneJobPerKey /\ WorkerFailureReleases
  BY <1>7 DEF JobHasReservation, OneJobPerKey, WorkerFailureReleases, WorkerCodes
<1>9. MessagesNameStoredJobs
  BY DEF Init, MessagesNameStoredJobs, NoMessage
<1> QED BY <1>1, <1>4, <1>5, <1>6, <1>8, <1>9 DEF IInv

\* A step that changes nothing keeps the invariant.
LEMMA StutterInv ==
  ASSUME IInv, UNCHANGED vars
  PROVE  IInv'
<1>1. /\ budget' = budget /\ reservation' = reservation /\ ledger' = ledger
      /\ overrides' = overrides /\ job' = job
      /\ pc' = pc /\ tx' = tx /\ saw' = saw /\ queue' = queue /\ held' = held /\ dead' = dead
  BY DEF vars, rows, bus
<1>2. TypeOK' /\ MessagesNameStoredJobs'
  BY <1>1 DEF IInv, TypeOK, MessagesNameStoredJobs
<1>3. Exclusive' /\ ReadIsCurrent' /\ JobHasReservation' /\ OneJobPerKey'
      /\ WorkerFailureReleases'
  BY <1>1 DEF IInv, Exclusive, ReadIsCurrent, JobHasReservation, OneJobPerKey,
              WorkerFailureReleases, HoldsBudget, HoldsReservation, HoldsJob, HoldsKey
<1>4. ASSUME NEW p \in Procs
      PROVE  CreateOK(p)' /\ OverrideOK(p)' /\ ReservationOK(p)' /\ JobOK(p)'
  <2>1. CreateOK(p) /\ OverrideOK(p) /\ ReservationOK(p) /\ JobOK(p)
    BY DEF IInv
  <2>2. CreateOK(p)'
    BY <1>1, <2>1 DEF CreateOK, KeyTaken
  <2>3. OverrideOK(p)' /\ ReservationOK(p)' /\ JobOK(p)'
    BY <1>1, <2>1 DEF OverrideOK, ReservationOK, JobOK
  <2> QED BY <2>2, <2>3
<1>5. \A w \in Workers : WorkerOK(w)'
  BY <1>1 DEF IInv, WorkerOK
<1> QED BY <1>2, <1>3, <1>4, <1>5 DEF IInv

\* Every step of a request keeps the invariant.
LEMMA ClientNextInv ==
  ASSUME IInv, NEW c \in Clients, ClientNext(c)
  PROVE  IInv'
<1> HIDE DEF Jobs, Procs
<1>1. CASE \E k \in Keys, raw \in Costs : create_lookup(c, k, raw)
  BY <1>1, CreateLookupInv
<1>2. CASE \E k \in Keys : create_existing(c, k)
  BY <1>2, StutterInv DEF create_existing
<1>3. CASE create_insert(c)
  BY <1>3, CreateInsertInv
<1>4. CASE create_duplicate(c) \/ create_exceeded(c) \/ publish_fails(c)
           \/ settle_deadlock(c) \/ client_rollback(c)
  <2>1. UNCHANGED <<rows, job, bus>> /\ Return(c)
    BY <1>4 DEF create_duplicate, create_exceeded, publish_fails, settle_deadlock,
                client_rollback
  <2> QED BY <2>1, ClientReturnInv
<1>5. CASE create_reserve(c)
  BY <1>5, CreateReserveInv
<1>6. CASE create_commit(c)
  BY <1>6, CreateCommitInv
<1>7. CASE publish(c)
  BY <1>7, PublishInv
<1>8. CASE \E raw \in Limits : override_lock(c, raw)
  BY <1>8, OverrideLockInv
<1>9. CASE override_commit(c)
  BY <1>9, OverrideCommitInv
<1>10. CASE \E j \in Jobs, raw \in Actuals : settle_lock(c, j, raw)
  BY <1>10, SettleLockInv
<1>11. CASE settle_budget(c)
  BY <1>11, SettleBudgetInv
<1>12. CASE settle_commit(c)
  BY <1>12, SettleCommitInv
<1>13. CASE \E j \in Jobs, t \in Targets, code \in {"none", "caller_code"} :
              transition_lock(c, j, t, code)
  BY <1>13, TransitionLockInv
<1>14. CASE transition_commit(c)
  BY <1>14, TransitionCommitInv
<1> QED BY <1>1, <1>2, <1>3, <1>4, <1>5, <1>6, <1>7, <1>8, <1>9, <1>10, <1>11, <1>12,
           <1>13, <1>14 DEF ClientNext

\* Every step of a worker keeps the invariant.
LEMMA WorkerNextInv ==
  ASSUME IInv, NEW w \in Workers, WorkerNext(w)
  PROVE  IInv'
<1> HIDE DEF Jobs, Procs
<1>1. CASE \E m \in queue : receive(w, m)
  BY <1>1, ReceiveInv
<1>2. CASE process_lock_job(w)
  BY <1>2, ProcessLockJobInv
<1>3. CASE process_skip(w)
  BY <1>3, ProcessSkipInv
<1>4. CASE process_lock_reservation(w)
  BY <1>4, ProcessLockReservationInv
<1>5. CASE process_lock_budget(w)
  BY <1>5, ProcessLockBudgetInv
<1>6. CASE process_commit(w)
  BY <1>6, ProcessCommitInv
<1>7. CASE process_inactive(w) \/ process_deadlock(w) \/ process_error(w)
  <2>1. pc[w] \in WorkerSteps /\ Raise(w)
    BY <1>7 DEF process_inactive, process_deadlock, process_error, Deadlocked, WorkerSteps
  <2> QED BY <2>1, RaiseInv
<1>8. CASE ack(w) \/ worker_dies(w)
  BY <1>8, AckInv
<1>9. CASE redeliver(w)
  BY <1>9, RedeliverInv
<1> QED BY <1>1, <1>2, <1>3, <1>4, <1>5, <1>6, <1>7, <1>8, <1>9 DEF WorkerNext

\* The invariant holds in every reachable state, however requests and workers
\* interleave, fail and retry, for any number of them.
THEOREM Invariance == Spec => []IInv
<1>1. IInv /\ [Next]_vars => IInv'
  <2> SUFFICES ASSUME IInv, [Next]_vars PROVE IInv'
    OBVIOUS
  <2>1. CASE \E c \in Clients : ClientNext(c)
    BY <2>1, ClientNextInv
  <2>2. CASE \E w \in Workers : WorkerNext(w)
    BY <2>2, WorkerNextInv
  <2>3. CASE UNCHANGED vars
    BY <2>3, StutterInv
  <2> QED BY <2>1, <2>2, <2>3 DEF Next
<1> QED BY <1>1, InitInv, PTL DEF Spec

-----------------------------------------------------------------------------
(* What follows from it *)

\* Rows, messages and the steps of every call keep their types, whatever
\* interleaves with them.
THEOREM TypeCorrect == Spec => []TypeOK
<1>1. IInv => TypeOK
  BY DEF IInv
<1> QED BY <1>1, Invariance, PTL

\* The balance a transaction writes back is computed from the committed row: no
\* update of the budget is lost.
THEOREM NoLostUpdate == Spec => []ReadIsCurrent
<1>1. IInv => ReadIsCurrent
  BY DEF IInv
<1> QED BY <1>1, Invariance, PTL

\* One job per idempotency key, for any number of racing requests.
THEOREM IdempotentCreation == Spec => []OneJobPerKey
<1>1. IInv => OneJobPerKey
  BY DEF IInv
<1> QED BY <1>1, Invariance, PTL

\* A job and its reservation are stored together or not at all.
THEOREM AtomicCreation == Spec => []JobHasReservation
<1>1. IInv => JobHasReservation
  BY DEF IInv
<1> QED BY <1>1, Invariance, PTL

\* Workers only receive ids of stored jobs.
THEOREM PublishedAfterCommit == Spec => []MessagesNameStoredJobs
<1>1. IInv => MessagesNameStoredJobs
  BY DEF IInv
<1> QED BY <1>1, Invariance, PTL

\* A job failed by the worker has its reservation released.
THEOREM FailureReleases == Spec => []WorkerFailureReleases
<1>1. IInv => WorkerFailureReleases
  BY DEF IInv
<1> QED BY <1>1, Invariance, PTL

\* Five steps write rows; all the others leave the tables as they are.
LEMMA RowWriters ==
  ASSUME [Next]_vars
  PROVE  \/ UNCHANGED <<rows, job>>
         \/ \E c \in Clients : \/ create_commit(c) \/ override_commit(c)
                               \/ settle_commit(c) \/ transition_commit(c)
         \/ \E w \in Workers : process_commit(w)
<1>1. CASE UNCHANGED vars
  BY <1>1 DEF vars
<1>2. ASSUME NEW c \in Clients, ClientNext(c)
      PROVE  \/ UNCHANGED <<rows, job>>
             \/ create_commit(c) \/ override_commit(c) \/ settle_commit(c)
             \/ transition_commit(c)
  BY <1>2 DEF ClientNext, create_lookup, create_existing, create_insert, create_duplicate,
              create_reserve, create_exceeded, publish, publish_fails, override_lock,
              settle_lock, settle_budget, settle_deadlock, transition_lock, client_rollback,
              vars
<1>3. ASSUME NEW w \in Workers, WorkerNext(w)
      PROVE  UNCHANGED <<rows, job>> \/ process_commit(w)
  BY <1>3 DEF WorkerNext, receive, process_lock_job, process_skip, process_lock_reservation,
              process_inactive, process_deadlock, process_lock_budget, ack, process_error,
              worker_dies, redeliver, Raise
<1> QED BY <1>1, <1>2, <1>3 DEF Next

\* No step changes a finished job: the state is checked under the lock of the
\* job, and the job is written under the same lock.
THEOREM TerminalStates == Spec => FinishedForGood
<1> DEFINE Kept == \A j \in Jobs : job[j].state \in TERMINAL_JOB_STATES => job'[j] = job[j]
<1>1. IInv /\ [Next]_vars => [Kept]_vars
  <2> SUFFICES ASSUME IInv, [Next]_vars PROVE Kept
    OBVIOUS
  <2>0. job \in [Jobs -> JobRow] /\ \A p \in Procs : CreateOK(p) /\ JobOK(p)
    BY DEF IInv, TypeOK
  <2>1. CASE UNCHANGED <<rows, job>>
    BY <2>1
  <2>2. ASSUME NEW c \in Clients, create_commit(c) PROVE Kept
    <3>1. job[tx[c].job].state = "none" /\ \A j \in Jobs : j # tx[c].job => job'[j] = job[j]
      BY <2>0, <2>2 DEF create_commit, Goto, CreateOK, CreateSteps
    <3> QED BY <3>1 DEF TERMINAL_JOB_STATES
  <2>3. CASE \E c \in Clients : override_commit(c) \/ settle_commit(c)
    BY <2>3 DEF override_commit, settle_commit
  <2>4. ASSUME NEW c \in Clients, transition_commit(c) PROVE Kept
    <3>1. /\ tx[c].job \in Jobs /\ job[tx[c].job].state # "none"
          /\ ensure_job_transition(job[tx[c].job].state, tx[c].target)
          /\ \A j \in Jobs : j # tx[c].job => job'[j] = job[j]
      BY <2>0, <2>4 DEF transition_commit, JobOK
    <3>2. job[tx[c].job].state \in JobState
      BY <2>0, <3>1 DEF JobRow
    <3> QED BY <3>1, <3>2, TransitionSource
  <2>5. ASSUME NEW w \in Workers, process_commit(w) PROVE Kept
    <3>1. job[tx[w].job].state = "queued" /\ \A j \in Jobs : j # tx[w].job => job'[j] = job[j]
      BY <2>0, <2>5 DEF process_commit, Goto, JobOK, ProcessSteps
    <3> QED BY <3>1 DEF TERMINAL_JOB_STATES
  <2> QED BY <2>1, <2>2, <2>3, <2>4, <2>5, RowWriters
<1> QED BY <1>1, Invariance, PTL DEF Spec, FinishedForGood

\* UsageBudget's row operators are the ones used here.
LEMMA SameRows ==
  /\ \A b, x, y : /\ Budget!FitsLimit(b, x) = FitsLimit(b, x)
                  /\ Budget!CoversCommitments(b, x) = CoversCommitments(b, x)
                  /\ Budget!WithinReservation(b, x) = WithinReservation(b, x)
                  /\ Budget!Active(b) = Active(b)
                  /\ Budget!normalized_cost(x) = normalized_cost(x)
  /\ \A b, x, y : /\ Budget!AfterReserve(b, x) = AfterReserve(b, x)
                  /\ Budget!AfterSettle(b, x, y) = AfterSettle(b, x, y)
                  /\ Budget!AfterRelease(b, x) = AfterRelease(b, x)
                  /\ Budget!AfterOverride(b, x) = AfterOverride(b, x)
  /\ \A b, x, y : /\ Budget!Reserved(x) = Reserved(x)
                  /\ Budget!Settled(b, x) = Settled(b, x)
                  /\ Budget!Released(b) = Released(b)
  /\ \A b, x, y : /\ Budget!LogReserve(b, x) = LogReserve(b, x)
                  /\ Budget!LogSettle(b, x, y) = LogSettle(b, x, y)
                  /\ Budget!LogRelease(b, x) = LogRelease(b, x)
  /\ Budget!NoReservation = NoReservation /\ Budget!NoEntries = NoEntries
BY DEF Budget!FitsLimit, FitsLimit, Budget!CoversCommitments, CoversCommitments,
       Budget!WithinReservation, WithinReservation, Budget!Active, Active,
       Budget!normalized_cost, normalized_cost,
       Budget!AfterReserve, AfterReserve, Budget!AfterSettle, AfterSettle,
       Budget!AfterRelease, AfterRelease, Budget!AfterOverride, AfterOverride,
       Budget!Reserved, Reserved, Budget!Settled, Settled, Budget!Released, Released,
       Budget!LogReserve, LogReserve, Budget!LogSettle, LogSettle,
       Budget!LogRelease, LogRelease,
       Budget!NoReservation, NoReservation, Budget!NoEntries, NoEntries

\* Every step of the interleaved transactions is a step of UsageBudget on the
\* current rows, or leaves its rows unchanged.
LEMMA StepImplements ==
  ASSUME IInv, [Next]_vars
  PROVE  [Budget!Next]_(Budget!vars)
<1>0. /\ ReadIsCurrent /\ JobHasReservation
      /\ \A p \in Procs : CreateOK(p) /\ OverrideOK(p) /\ ReservationOK(p)
  BY DEF IInv
<1>1. CASE UNCHANGED <<rows, job>>
  BY <1>1 DEF rows, Budget!vars
<1>2. ASSUME NEW c \in Clients, create_commit(c) PROVE Budget!Next
  <2>1. pc[c] = "commit_create" /\ saw[c] = budget
    BY <1>0, <1>2 DEF create_commit, Goto, ReadIsCurrent, HoldsBudget, BudgetSteps
  <2>2. PICK raw \in Costs : tx[c].cost = normalized_cost(raw)
    BY <1>0, <2>1 DEF CreateOK, CreateSteps
  <2>3. /\ tx[c].job \in Jobs /\ tx[c].cost >= 0 /\ FitsLimit(budget, tx[c].cost)
        /\ reservation[tx[c].job].state = "none"
    BY <1>0, <2>1 DEF CreateOK, CreateSteps, JobHasReservation
  <2>4. Budget!reserve(tx[c].job, normalized_cost(raw))
    BY <1>2, <2>1, <2>2, <2>3, SameRows DEF create_commit, Budget!reserve
  <2> QED BY <2>2, <2>3, <2>4, SameRows DEF Budget!Next, Budget!Jobs
<1>3. ASSUME NEW c \in Clients, override_commit(c) PROVE Budget!Next
  <2>1. pc[c] = "commit_override" /\ saw[c] = budget
    BY <1>0, <1>3 DEF override_commit, ReadIsCurrent, HoldsBudget, BudgetSteps
  <2>2. PICK raw \in Limits : tx[c].cost = normalized_cost(raw)
    BY <1>0, <2>1 DEF OverrideOK
  <2>3. tx[c].cost >= 0 /\ CoversCommitments(budget, tx[c].cost)
    BY <1>0, <2>1 DEF OverrideOK
  <2>4. Budget!override_limit(normalized_cost(raw))
    BY <1>3, <2>1, <2>2, <2>3, SameRows DEF override_commit, Budget!override_limit
  <2> QED BY <2>2, <2>4, SameRows DEF Budget!Next
<1>4. ASSUME NEW c \in Clients, settle_commit(c) PROVE Budget!Next
  <2>1. pc[c] = "commit_settle" /\ saw[c] = budget
    BY <1>0, <1>4 DEF settle_commit, ReadIsCurrent, HoldsBudget, BudgetSteps
  <2>2. PICK raw \in Actuals : tx[c].cost = normalized_cost(raw)
    BY <1>0, <2>1 DEF ReservationOK, SettleSteps
  <2>3. /\ tx[c].job \in Jobs /\ tx[c].cost >= 0 /\ Active(reservation[tx[c].job])
        /\ WithinReservation(reservation[tx[c].job], tx[c].cost)
    BY <1>0, <2>1 DEF ReservationOK, SettleSteps, ReservationSteps
  <2>4. Budget!settle(tx[c].job, normalized_cost(raw))
    BY <1>4, <2>1, <2>2, <2>3, SameRows DEF settle_commit, Budget!settle
  <2> QED BY <2>2, <2>3, <2>4, SameRows DEF Budget!Next, Budget!Jobs
<1>5. CASE \E c \in Clients : transition_commit(c)
  BY <1>5 DEF transition_commit, rows, Budget!vars
<1>6. ASSUME NEW w \in Workers, process_commit(w) PROVE Budget!Next
  <2>1. pc[w] = "commit_job" /\ saw[w] = budget
    BY <1>0, <1>6 DEF process_commit, Goto, ReadIsCurrent, HoldsBudget, BudgetSteps
  <2>2. tx[w].job \in Jobs /\ Active(reservation[tx[w].job])
    BY <1>0, <2>1 DEF ReservationOK, ReservationSteps
  <2>3. Budget!release(tx[w].job)
    BY <1>6, <2>1, <2>2, SameRows DEF process_commit, Budget!release
  <2> QED BY <2>2, <2>3 DEF Budget!Next, Budget!Jobs
<1> QED BY <1>1, <1>2, <1>3, <1>4, <1>5, <1>6, RowWriters

\* The transactions implement the atomic budget: whatever is true of every
\* behaviour of UsageBudget is true of the rows here.
THEOREM Refinement == Spec => ImplementsUsageBudget
<1>1. Init => Budget!Init
  BY SameRows DEF Init, Budget!Init, Budget!Jobs
<1>2. IInv /\ [Next]_vars => [Budget!Next]_(Budget!vars)
  BY StepImplements
<1> QED BY <1>1, <1>2, Invariance, PTL DEF Spec, ImplementsUsageBudget, Budget!Spec
=============================================================================
