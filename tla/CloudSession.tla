---------------------------- MODULE CloudSession ----------------------------
(***************************************************************************)
(* Signing in to the service, staying signed in, and leaving, on one       *)
(* device. The controller starts, signs in, merges, synchronises and signs *)
(* out in flows that wait for calls and for the local store; each of them  *)
(* may find, when it goes on, that another one has begun a newer session.  *)
(* The service keeps sessions with refresh tokens that are replaced at     *)
(* every use, and ends a session whose old token is presented again.       *)
(*                                                                         *)
(* Code: apps/app/src/sync/cloud.ts, the session fence of                  *)
(* adapters/web-repository.ts, apps/api/src/auth/. Left out: which edits   *)
(* a merge prepares, the addresses of services, rate limits and delivery   *)
(* of codes, devices and push, a bootstrap that the user forces. An access *)
(* token is the session it was issued for; refresh tokens of a session are *)
(* numbered. Storage that refuses to be written is not modelled.           *)
(***************************************************************************)
EXTENDS Integers, Sequences, SequencesExt

CONSTANTS
    Account,     \* the accounts, known by their addresses
    Home,        \* the one this device is signed in to
    Run,         \* places for runs of the engine, strings; a run waits for a free one
    None,        \* no account, token, call or answer
    MaxLogins,   \* bound: sign-ins
    MaxReloads,  \* bound: the page is loaded anew
    MaxFaults,   \* bound: lost calls, expiries, sessions ended elsewhere
    Kinds        \* the platforms, a subset of BOOLEAN: TRUE for a browser

ASSUME CloudAssumption ==
    /\ Home \in Account /\ Run \subseteq STRING \ {"init", "flow"}
    /\ MaxLogins \in Nat /\ MaxReloads \in Nat /\ MaxFaults \in Nat
    /\ Kinds \subseteq BOOLEAN

VARIABLES
    sessions,    \* the service: its sessions, in the order of their beginning
    disk,        \* what outlives the page
    mem,         \* the variables of the controller
    proc,        \* the flows under way
    fences,      \* writes of the session fence that wait, in their order
    late,        \* refresh tokens sent by a page that is gone
    hist,        \* history: whether a sign-in overtook another flow, and for each
                 \* time data strayed whether that was so
    used         \* how much of each bound is spent

vars == <<sessions, disk, mem, proc, fences, late, hist, used>>

Token == [s: Nat \ {0}, n: Nat]
Session == [account: Account, device: Nat, n: Nat, live: BOOLEAN]
Phases == {"disconnected", "code-sent", "choose-merge", "connected", "expired"}

\* `stored` is the key store of a native app, or the cookie of a browser.
Disk == [web: BOOLEAN, device: Nat, fence: Nat, bound: Account \cup {None},
         email: Account, enabled: BOOLEAN, stored: Token \cup {None}]

\* `gen` is the generation; `token` the fence of the session it belongs to, 0
\* for none; `engine` the fence an engine was installed with; `email` what the
\* form says and `identity` the connectedIdentity.
Mem == [phase: Phases, email: Account, identity: Account \cup {None}, gen: Nat, token: Nat, engine: Nat,
        access: [s: Nat, fresh: BOOLEAN] \cup {None}, refresh: Token \cup {None},
        snap: Account \cup {None}, pending: Nat]

Calls == [kind: {"code", "verify", "refresh", "sync", "snapshot", "logout"},
          s: Nat, tok: Token \cup {None}, account: Account \cup {None}, device: Nat]
Answers == [code: {"ok", "401", "403", "lost"}, tok: Token \cup {None}]

Proc == {"init", "flow"} \cup Run
Stage == {"idle", "code", "verify", "bind", "snapshot", "fence", "write", "activate", "again", "fail",
          "leave", "logout", "refresh", "enable", "sync", "apply", "expire", "drop"}
State == [pc: Stage, gen: Nat, account: Account \cup {None}, snap: Account \cup {None},
          why: {"", "login", "merge", "fail", "out", "clear", "cancel"}, retried: BOOLEAN,
          device: Nat, call: Calls \cup {None}, answer: Answers \cup {None}]

Idle == [pc |-> "idle", gen |-> 0, account |-> None, snap |-> None, why |-> "",
         retried |-> FALSE, device |-> 0, call |-> None, answer |-> None]
Request(kind) == [kind |-> kind, s |-> 0, tok |-> None, account |-> None, device |-> 0]

\* What a page begins with.
Blank(email, gen) ==
    [phase |-> "disconnected", email |-> email, identity |-> None, gen |-> gen, token |-> 0, engine |-> 0,
     access |-> None, refresh |-> None, snap |-> None, pending |-> 0]

\* initialize: a session that was left running is taken up again.
Loading(d, gen) ==
    [p \in Proc |->
        IF p = "init" /\ d.enabled
        THEN [Idle EXCEPT !.pc = "refresh", !.gen = gen, !.account = d.email,
                          !.call = [Request("refresh") EXCEPT !.tok = d.stored]]
        ELSE Idle]

Init ==
    /\ sessions = <<[account |-> Home, device |-> 1, n |-> 0, live |-> TRUE]>>
    /\ \E w \in Kinds :
        disk = [web |-> w, device |-> 1, fence |-> 0, bound |-> Home, email |-> Home, enabled |-> TRUE,
                stored |-> [s |-> 1, n |-> 0]]
    /\ mem = Blank(Home, 1)
    /\ proc = Loading(disk, 1)
    /\ fences = <<>>
    /\ late = {}
    /\ hist = [strays |-> {}, overtaken |-> FALSE]
    /\ used = [logins |-> 0, reloads |-> 0, faults |-> 0]

TypeOK ==
    /\ sessions \in Seq(Session)
    /\ disk \in Disk /\ mem \in Mem
    /\ proc \in [Proc -> State]
    /\ fences \in Seq([set: BOOLEAN, gen: Nat, token: Nat])
    /\ late \subseteq Token
    /\ hist \in [strays: SUBSET BOOLEAN, overtaken: BOOLEAN]

Spend(bound, max) == used[bound] < max /\ used' = [used EXCEPT ![bound] = @ + 1]

-----------------------------------------------------------------------------
(* The service. *)

Alive(s) == s \in DOMAIN sessions /\ sessions[s].live
Current(tok) == tok # None /\ Alive(tok.s) /\ sessions[tok.s].n = tok.n
Answer(code) == [code |-> code, tok |-> None]

\* What an access token, or a refresh token, is good for.
Reply(c) ==
    CASE c.kind = "code"    -> Answer("ok")
      [] c.kind = "verify"  -> [code |-> "ok", tok |-> [s |-> Len(sessions) + 1, n |-> 0]]
      [] c.kind = "refresh" -> IF Current(c.tok)
                               THEN [code |-> "ok", tok |-> [c.tok EXCEPT !.n = @ + 1]]
                               ELSE Answer("401")
      [] c.kind = "sync" /\ Alive(c.s) /\ sessions[c.s].device # c.device -> Answer("403")
      [] OTHER              -> Answer(IF Alive(c.s) THEN "ok" ELSE "401")

Ended(s) == [sessions EXCEPT ![s].live = FALSE]

\* refresh: the token is replaced; one that was replaced before ends its session.
Refreshed(tok) ==
    IF tok = None THEN sessions
    ELSE IF Current(tok) THEN [sessions EXCEPT ![tok.s].n = @ + 1]
    ELSE Ended(tok.s)

Handled(c) ==
    CASE c.kind = "verify"  -> Append(sessions, [account |-> c.account, device |-> c.device,
                                                 n |-> 0, live |-> TRUE])
      [] c.kind = "refresh" -> Refreshed(c.tok)
      [] c.kind = "logout" /\ Alive(c.s) -> Ended(c.s)
      [] OTHER              -> sessions

Waiting(p) == proc[p].call # None /\ proc[p].answer = None

Serve(p) ==
    /\ Waiting(p)
    /\ sessions' = Handled(proc[p].call)
    /\ \/ proc' = [proc EXCEPT ![p].answer = Reply(proc[p].call)]
       \/ proc[p].call.kind = "verify" /\ proc' = [proc EXCEPT ![p].answer = Answer("401")]
          /\ sessions' = sessions
    /\ UNCHANGED <<disk, mem, fences, late, hist, used>>

\* A call, or its answer, is lost.
Lose(p) ==
    /\ proc[p].call # None /\ proc[p].answer # Answer("lost")
    /\ Spend("faults", MaxFaults)
    /\ proc' = [proc EXCEPT ![p].answer = Answer("lost")]
    /\ UNCHANGED <<sessions, disk, mem, fences, late, hist>>

ServeLate ==
    \E tok \in late :
        /\ late' = late \ {tok}
        /\ sessions' = Refreshed(tok) \/ sessions' = sessions
        /\ UNCHANGED <<disk, mem, proc, fences, hist, used>>

\* The device is revoked from another one.
EndElsewhere ==
    /\ Spend("faults", MaxFaults)
    /\ \E s \in DOMAIN sessions : sessions[s].live /\ sessions' = Ended(s)
    /\ UNCHANGED <<disk, mem, proc, fences, late, hist>>

-----------------------------------------------------------------------------
(* Tokens and the fence of the session. *)

Fresh == mem.access # None /\ mem.access.fresh
HeldToken == IF mem.refresh # None THEN mem.refresh ELSE disk.stored

Expire ==
    /\ Fresh /\ proc["flow"].pc = "idle"
    /\ Spend("faults", MaxFaults)
    /\ mem' = [mem EXCEPT !.access.fresh = FALSE]
    /\ UNCHANGED <<sessions, disk, proc, fences, late, hist>>

\* applyTokens
WithTokens(m, tok) ==
    [m EXCEPT !.access = [s |-> tok.s, fresh |-> TRUE],
              !.refresh = IF disk.web THEN None ELSE tok]
Keeping(d, tok) == [d EXCEPT !.stored = tok]

\* clearTokens: the cookie is not the page's to remove.
WithoutTokens(m) == [m EXCEPT !.access = None, !.refresh = None]
Dropping(d) == IF d.web THEN d ELSE [d EXCEPT !.stored = None]

\* A browser takes the cookie of an answer that nobody waits for any more.
CookieOnly(d, tok) == IF d.web THEN Keeping(d, tok) ELSE d

\* beginSession and invalidateSession, up to where they wait for the fence.
Begun(m) == [m EXCEPT !.gen = @ + 1, !.token = m.gen + 1, !.engine = 0]
Dropped(m) == [m EXCEPT !.gen = @ + 1, !.token = 0, !.engine = 0, !.identity = None]
SetFence == fences' = Append(fences, [set |-> TRUE, gen |-> mem.gen + 1, token |-> mem.gen + 1])
ClearFence == fences' = Append(fences, [set |-> FALSE, gen |-> mem.gen + 1, token |-> mem.token])

\* A write that a newer generation has superseded does nothing; a clear leaves
\* the fence of another session alone.
FenceStep ==
    /\ fences # <<>>
    /\ LET f == Head(fences) IN
        disk' = IF f.gen # mem.gen THEN disk
                ELSE IF f.set THEN [disk EXCEPT !.fence = f.token]
                ELSE IF f.token # 0 /\ disk.fence = f.token THEN [disk EXCEPT !.fence = 0]
                ELSE disk
    /\ fences' = Tail(fences)
    /\ UNCHANGED <<sessions, mem, proc, late, hist, used>>

Passed(p) == \A i \in DOMAIN fences : fences[i].gen # proc[p].gen
IsCurrent(p) == proc[p].gen = mem.gen

\* assertSyncSession
InFence(p) == disk.fence = proc[p].gen

-----------------------------------------------------------------------------
(* Steps that several flows take. *)

Go(p, r) == proc' = [proc EXCEPT ![p] = r]
Stop(p) == Go(p, Idle)
Calling(r, pc, c) == [r EXCEPT !.pc = pc, !.call = c, !.answer = None]
AskRefresh(r) == Calling(r, "refresh", [Request("refresh") EXCEPT !.tok = HeldToken])
SessionOf(m) == IF m.access = None THEN 0 ELSE m.access.s
AskSync(r, m) ==
    Calling(r, "sync", [Request("sync") EXCEPT !.s = SessionOf(m), !.device = r.device])
Got(p, pc) == proc[p].pc = pc /\ proc[p].answer # None
Code(p) == proc[p].answer.code
After(r, pc, gen) == [r EXCEPT !.pc = pc, !.gen = gen, !.call = None, !.answer = None]

Persisted(d, enabled) == [d EXCEPT !.enabled = enabled, !.email = mem.email]

\* activateCloud, where it has a session: persist(true) with it.
Activate(p) ==
    /\ mem' = [mem EXCEPT !.phase = "connected", !.engine = proc[p].gen, !.snap = None,
                          !.pending = 0, !.identity = mem.email]
    /\ disk' = Persisted(disk, TRUE)
    /\ Stop(p)

-----------------------------------------------------------------------------
(* The start of a page. *)

Reload ==
    /\ Spend("reloads", MaxReloads)
    /\ mem' = Blank(disk.email, mem.gen + 1)
    /\ proc' = Loading(disk, mem.gen + 1)
    /\ fences' = <<>>
    /\ late' = late \cup {proc[p].call.tok : p \in
                 {q \in Proc : Waiting(q) /\ proc[q].call.kind = "refresh" /\ proc[q].call.tok # None}}
    /\ UNCHANGED <<sessions, disk, hist>>

InitAnswer ==
    LET r == proc["init"] IN
    /\ Got("init", "refresh")
    /\ IF Code("init") = "ok"
       THEN IF IsCurrent("init")
            THEN /\ mem' = WithTokens(mem, r.answer.tok)
                 /\ disk' = Keeping(disk, r.answer.tok)
                 /\ Go("init", After(r, "enable", r.gen))
            ELSE /\ disk' = CookieOnly(disk, r.answer.tok)
                 /\ Stop("init") /\ UNCHANGED mem
       ELSE /\ mem' = IF IsCurrent("init")
                    THEN [mem EXCEPT !.phase = "expired", !.email = r.account] ELSE mem
            /\ Stop("init") /\ UNCHANGED disk
    /\ UNCHANGED <<sessions, fences, late, hist, used>>

\* activateCloud without a session: whatever has begun meanwhile is superseded.
InitBegin ==
    /\ proc["init"].pc = "enable"
    /\ mem' = [Begun(mem) EXCEPT !.email = proc["init"].account] /\ SetFence
    /\ Go("init", After(proc["init"], "fence", mem.gen + 1))
    /\ UNCHANGED <<sessions, disk, late, hist, used>>

InitActivate ==
    /\ proc["init"].pc = "fence" /\ Passed("init")
    /\ IF IsCurrent("init") THEN Activate("init") ELSE Stop("init") /\ UNCHANGED <<mem, disk>>
    /\ UNCHANGED <<sessions, fences, late, hist, used>>

InitStep == InitAnswer \/ InitBegin \/ InitActivate

-----------------------------------------------------------------------------
(* A run of the engine. One at a time in a generation. *)

StartRun(p) ==
    LET r == [Idle EXCEPT !.gen = mem.gen, !.device = disk.device] IN
    /\ proc[p].pc = "idle" /\ p = CHOOSE q \in Run : proc[q].pc = "idle"
    /\ mem.phase = "connected" /\ mem.engine = mem.gen
    /\ \A q \in Run : proc[q].pc # "idle" => proc[q].gen # mem.gen
    /\ Go(p, IF Fresh THEN AskSync(r, mem) ELSE AskRefresh(r))
    /\ UNCHANGED <<sessions, disk, mem, fences, late, hist, used>>

\* Slip: a refusal is answered with a new token as often as it comes.
UnauthorisedEver(p) == Go(p, AskRefresh(proc[p]))

\* A refusal is answered with a new token once.
Unauthorised(p) ==
    LET r == proc[p] IN
    IF r.retried THEN Go(p, After(r, "expire", r.gen))
    ELSE Go(p, AskRefresh([r EXCEPT !.retried = TRUE]))

TakesTokens(p) == IsCurrent(p)

RunRefreshed(p) ==
    LET r == proc[p]  tok == proc[p].answer.tok IN
    /\ Got(p, "refresh")
    /\ CASE Code(p) = "ok" /\ TakesTokens(p) ->
              /\ mem' = WithTokens(mem, tok) /\ disk' = Keeping(disk, tok)
              /\ Go(p, AskSync(r, mem'))
         [] Code(p) = "ok" /\ ~TakesTokens(p) ->
              disk' = CookieOnly(disk, tok) /\ Stop(p) /\ UNCHANGED mem
         [] Code(p) = "401" /\ IsCurrent(p) -> Unauthorised(p) /\ UNCHANGED <<mem, disk>>
         [] OTHER -> Stop(p) /\ UNCHANGED <<mem, disk>>
    /\ UNCHANGED <<sessions, fences, late, hist, used>>

RunAnswered(p) ==
    /\ Got(p, "sync")
    /\ CASE Code(p) = "ok" /\ IsCurrent(p) -> Go(p, [proc[p] EXCEPT !.pc = "apply"])
         [] Code(p) = "401" /\ IsCurrent(p) -> Unauthorised(p)
         [] OTHER -> Stop(p)
    /\ UNCHANGED <<sessions, disk, mem, fences, late, hist, used>>

\* syncApplyResult, and persist(true) if the generation is the same still.
Apply(p) ==
    /\ proc[p].pc = "apply"
    /\ hist' = IF InFence(p) /\ sessions[proc[p].call.s].account # disk.bound
               THEN [hist EXCEPT !.strays = @ \cup {hist.overtaken}] ELSE hist
    /\ disk' = IF InFence(p) /\ IsCurrent(p) THEN Persisted(disk, TRUE) ELSE disk
    /\ Stop(p)
    /\ UNCHANGED <<sessions, mem, fences, late, used>>

\* expireSession, which waits for the key store and then for the fence.
ExpireSession(p) ==
    /\ proc[p].pc = "expire"
    /\ mem' = WithoutTokens(mem) /\ disk' = Dropping(disk)
    /\ Go(p, After(proc[p], "drop", proc[p].gen))
    /\ UNCHANGED <<sessions, fences, late, hist, used>>

DropSession(p) ==
    /\ proc[p].pc = "drop"
    /\ mem' = Dropped(mem) /\ ClearFence
    /\ Go(p, After(proc[p], "fence", mem.gen + 1))
    /\ UNCHANGED <<sessions, disk, late, hist, used>>

SayExpired(p) ==
    /\ proc[p].pc = "fence" /\ Passed(p)
    /\ mem' = [mem EXCEPT !.phase = "expired"]
    /\ Stop(p)
    /\ UNCHANGED <<sessions, disk, fences, late, hist, used>>

RunStep(p) ==
    \/ StartRun(p) \/ RunRefreshed(p) \/ RunAnswered(p) \/ Apply(p)
    \/ ExpireSession(p) \/ DropSession(p) \/ SayExpired(p)

-----------------------------------------------------------------------------
(* What the user does, one thing at a time. *)

Flow == proc["flow"]
Free == Flow.pc = "idle"

Busy == \E p \in Proc \ {"flow"} : proc[p].pc # "idle"
Overtaking == [hist EXCEPT !.overtaken = @ \/ Busy]

\* The address can be typed as long as no code was asked for.
SetEmail(a) ==
    /\ mem.phase = "disconnected" /\ mem.email # a /\ used.logins < MaxLogins
    /\ mem' = [mem EXCEPT !.email = a]
    /\ hist' = Overtaking
    /\ UNCHANGED <<sessions, disk, proc, fences, late, used>>

RequestCode ==
    /\ Free /\ mem.phase \in {"disconnected", "code-sent", "expired"}
    /\ used.logins < MaxLogins
    /\ Go("flow", Calling(Idle, "code", Request("code")))
    /\ UNCHANGED <<sessions, disk, mem, fences, late, hist, used>>

CodeSent ==
    /\ Got("flow", "code")
    /\ IF Code("flow") = "ok"
       THEN mem' = [mem EXCEPT !.phase = "code-sent"] /\ disk' = Persisted(disk, FALSE)
       ELSE UNCHANGED <<mem, disk>>
    /\ Stop("flow")
    /\ UNCHANGED <<sessions, fences, late, hist, used>>

\* verifyCode: the device gets a new id first.
SignIn ==
    LET device == used.logins + 2 IN
    /\ Free /\ mem.phase \in {"code-sent", "expired"}
    /\ Spend("logins", MaxLogins)
    /\ disk' = [disk EXCEPT !.device = device]
    /\ Go("flow", Calling([Idle EXCEPT !.account = mem.email, !.why = "login"], "verify",
                          [Request("verify") EXCEPT !.account = mem.email, !.device = device]))
    /\ hist' = [hist EXCEPT !.overtaken = @ \/ Busy \/ (disk.enabled /\ HeldToken # None)]
    /\ UNCHANGED <<sessions, mem, fences, late>>

Failing == After(Flow, "fail", Flow.gen)

\* What verifyCode and chooseMerge catch: a failed merge keeps the tokens.
GiveUp ==
    IF Flow.why = "login" THEN Go("flow", Failing) /\ UNCHANGED mem
    ELSE mem' = [mem EXCEPT !.phase = "disconnected"] /\ Stop("flow")

SignedIn ==
    /\ Got("flow", "verify")
    /\ IF Code("flow") = "ok"
       THEN /\ mem' = WithTokens(mem, Flow.answer.tok)
            /\ disk' = Keeping(disk, Flow.answer.tok)
            /\ Go("flow", After(Flow, "bind", Flow.gen))
       ELSE Go("flow", Failing) /\ UNCHANGED <<mem, disk>>
    /\ UNCHANGED <<sessions, fences, late, hist, used>>

\* Slip: the account that the data belong to is not looked at.
MayBindAny(a) == TRUE

MayBind(a) == disk.bound \in {None, a}

Bind ==
    /\ Flow.pc = "bind"
    /\ IF MayBind(Flow.account)
       THEN /\ disk' = Persisted(disk, FALSE)
            /\ Go("flow", Calling(Flow, "snapshot", [Request("snapshot") EXCEPT !.s = SessionOf(mem)]))
       ELSE Go("flow", Failing) /\ UNCHANGED disk
    /\ UNCHANGED <<sessions, mem, fences, late, hist, used>>

Fetched ==
    /\ Got("flow", "snapshot")
    /\ IF Code("flow") = "ok"
       THEN /\ mem' = Begun(mem) /\ SetFence
            /\ Go("flow", After([Flow EXCEPT !.snap = sessions[Flow.call.s].account], "fence",
                                mem.gen + 1))
       ELSE Go("flow", Failing) /\ UNCHANGED <<mem, fences>>
    /\ UNCHANGED <<sessions, disk, late, hist, used>>

\* An empty store takes the snapshot; the user is asked about another.
Choice ==
    /\ Flow.pc = "fence" /\ Passed("flow")
    /\ IF ~IsCurrent("flow") THEN Go("flow", Failing) /\ UNCHANGED mem
       ELSE \/ Go("flow", [Flow EXCEPT !.pc = "write"]) /\ UNCHANGED mem
            \/ /\ mem' = [mem EXCEPT !.phase = "choose-merge", !.snap = Flow.snap,
                                     !.pending = Flow.gen]
               /\ Stop("flow")
    /\ UNCHANGED <<sessions, disk, fences, late, hist, used>>

ChooseMerge ==
    /\ Free /\ mem.phase = "choose-merge" /\ mem.snap # None
    /\ Go("flow", [Idle EXCEPT !.pc = "write", !.gen = mem.pending, !.account = mem.email,
                               !.snap = mem.snap, !.why = "merge"])
    /\ UNCHANGED <<sessions, disk, mem, fences, late, hist, used>>

\* syncInitializeCloud binds the data to the account.
InitializeCloud ==
    /\ Flow.pc = "write"
    /\ IF InFence("flow")
       THEN /\ disk' = [disk EXCEPT !.bound = Flow.account]
            /\ hist' = IF Flow.snap # Flow.account \/ disk.bound \notin {None, Flow.account}
                       THEN [hist EXCEPT !.strays = @ \cup {hist.overtaken}] ELSE hist
            /\ Go("flow", [Flow EXCEPT !.pc = "activate"])
            /\ UNCHANGED mem
       ELSE GiveUp /\ UNCHANGED <<disk, hist>>
    /\ UNCHANGED <<sessions, fences, late, used>>

\* activateCloud, in the session of the sign-in if that is the present one.
ActivateFlow ==
    /\ \/ Flow.pc = "activate"
       \/ Flow.pc = "again" /\ Passed("flow")
    /\ IF IsCurrent("flow") THEN Activate("flow") /\ UNCHANGED fences
       ELSE IF Flow.pc = "again"
       THEN GiveUp /\ UNCHANGED <<disk, fences>>
       ELSE /\ mem' = Begun(mem) /\ SetFence /\ UNCHANGED disk
            /\ Go("flow", After(Flow, "again", mem.gen + 1))
    /\ UNCHANGED <<sessions, late, hist, used>>

\* A sign-in that fails, a merge called off, and signing out: the session is
\* invalidated, the service told, the tokens are cleared.
Leave(why, phase) ==
    /\ mem' = [Dropped(mem) EXCEPT !.phase = phase, !.snap = None, !.pending = 0] /\ ClearFence
    /\ Go("flow", After([Flow EXCEPT !.why = why], "leave", mem.gen + 1))
    /\ UNCHANGED <<sessions, disk, late, hist, used>>

Fail == Flow.pc = "fail" /\ Leave("fail", mem.phase)
Cancel == Free /\ mem.phase = "choose-merge" /\ Leave("cancel", "disconnected")
SignOut == Free /\ mem.phase = "connected" /\ \E why \in {"out", "clear"} : Leave(why, mem.phase)

Logout ==
    /\ Flow.pc = "leave" /\ Passed("flow")
    /\ Go("flow", Calling(Flow, "logout", [Request("logout") EXCEPT !.s = SessionOf(mem)]))
    /\ UNCHANGED <<sessions, disk, mem, fences, late, hist, used>>

LoggedOut ==
    LET cleared == IF Code("flow") = "ok" THEN [disk EXCEPT !.stored = None] ELSE Dropping(disk)
    IN  /\ Got("flow", "logout")
        /\ mem' = [WithoutTokens(mem) EXCEPT !.phase = "disconnected"]
        /\ disk' = IF Flow.why = "fail" THEN cleared
                   ELSE [Persisted(cleared, FALSE) EXCEPT
                            !.bound = IF Flow.why = "clear" THEN None ELSE @]
        /\ Stop("flow")
        /\ UNCHANGED <<sessions, fences, late, hist, used>>

UserStep == SignIn \/ ChooseMerge \/ Cancel \/ SignOut \/ RequestCode \/ \E a \in Account : SetEmail(a)
FlowStep ==
    \/ CodeSent \/ SignedIn \/ Bind \/ Fetched \/ Choice \/ InitializeCloud \/ ActivateFlow
    \/ Fail \/ Logout \/ LoggedOut

-----------------------------------------------------------------------------

Next ==
    \/ InitStep \/ UserStep \/ FlowStep \/ FenceStep
    \/ \E p \in Run : RunStep(p)
    \/ \E p \in Proc : Serve(p) \/ Lose(p)
    \/ ServeLate \/ EndElsewhere \/ Expire \/ Reload

Spec == Init /\ [][Next]_vars

\* Calls end, the local store answers, and a connected page polls.
Fairness ==
    /\ WF_vars(InitStep) /\ WF_vars(FlowStep) /\ WF_vars(FenceStep)
    /\ \A p \in Run : WF_vars(RunStep(p))
    /\ \A p \in Proc : WF_vars(Serve(p))
FairSpec == Spec /\ Fairness

-----------------------------------------------------------------------------
(* Properties. *)

(***************************************************************************)
(* The store never takes data of another account than the one it is bound  *)
(* to: neither an answer that comes after a sign-out and a new sign-in,    *)
(* nor a snapshot fetched with the tokens of another session.              *)
(***************************************************************************)
NothingStrays == FALSE \notin hist.strays

(***************************************************************************)
(* Whatever was lost, expired or ended elsewhere, no flow hangs, and a     *)
(* page that says it is connected can synchronise: its tokens are those of *)
(* a live session of its device. The exception is a sign-in that began     *)
(* while another flow was under way, or over a session that the page gave  *)
(* up for expired while its tokens and its mark were kept.                 *)
(***************************************************************************)
Works ==
    LET s == IF mem.access # None THEN mem.access.s
             ELSE IF HeldToken # None THEN HeldToken.s ELSE 0
    IN  Alive(s) /\ sessions[s].device = disk.device /\ sessions[s].account = disk.bound

AtRest == proc["init"].pc = "idle" /\ Free
ComesToRest == []<>AtRest /\ <>[](mem.phase = "connected" => Works \/ hist.overtaken)

(***************************************************************************)
(* The same without the exception.                                         *)
(***************************************************************************)
AlwaysWorks == <>[](mem.phase = "connected" => Works)

(***************************************************************************)
(* What the code says of connectedIdentity: it is the identity accepted by *)
(* the activation, never a typed input, so shared data are kept for the    *)
(* account that the session's data belong to.                              *)
(***************************************************************************)
NeverTyped ==
    mem.phase = "connected" /\ mem.identity # None => mem.identity = disk.bound
============================================================================
