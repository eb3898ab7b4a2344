------------------------- MODULE CloudSessionProofs -------------------------
(***************************************************************************)
(* Proofs about CloudSession, for any number of accounts, runs, sign-ins,  *)
(* reloads and faults: the fence is that of the newest generation, and     *)
(* until a sign-in overtakes another flow, the tokens of the page, what    *)
(* its calls carry and the data of the store are of one account.           *)
(***************************************************************************)
EXTENDS CloudSession, TLAPS

\* A session, or a token, of the account; 0 and None are of any.
Of(s, a) == s = 0 \/ (s \in DOMAIN sessions /\ sessions[s].account = a)
TokenOf(tok, a) == tok = None \/ Of(tok.s, a)
Held(a) == Of(SessionOf(mem), a) /\ TokenOf(mem.refresh, a) /\ TokenOf(disk.stored, a)

\* What a call of the flow asks with, and what it has got.
Carries(p, a) ==
    /\ proc[p].pc = "refresh" => TokenOf(proc[p].call.tok, a)
    /\ Got(p, "refresh") /\ Code(p) = "ok" => Of(proc[p].answer.tok.s, a)
    /\ proc[p].pc \in {"sync", "apply", "snapshot"} => Of(proc[p].call.s, a)

Asking == {"code", "verify", "refresh", "sync", "snapshot", "logout"}
Going == {"refresh", "sync", "apply", "expire", "drop"}
Ends == {"leave", "logout"}
Signing == {"verify", "bind", "snapshot", "fence", "write", "activate", "again"}

Idling(p) == proc[p].pc = "idle"
Alone == Idling("init") /\ \A p \in Run : Idling(p)
Installed == mem.engine = mem.gen

----------------------------------------------------------------------------
(* The inductive invariant. *)

Stages ==
    /\ proc["init"].pc \in {"idle", "refresh", "enable", "fence"}
    /\ Flow.pc \in {"idle", "code", "fail"} \cup Signing \cup Ends
    /\ \A p \in Run : proc[p].pc \in {"idle", "fence"} \cup Going
    /\ ~Idling("init") => proc["init"].account \in Account

\* A flow waits for the call that its stage makes.
CallsOK ==
    \A p \in Proc :
        /\ proc[p].pc \in Asking => proc[p].call \in Calls /\ proc[p].call.kind = proc[p].pc
        /\ proc[p].pc = "apply" => /\ proc[p].call \in Calls /\ proc[p].call.kind = "sync"
                                   /\ proc[p].call.s \in DOMAIN sessions
        /\ proc[p].call # None => proc[p].pc \in Asking \cup {"apply"}
        /\ proc[p].pc = "verify" => proc[p].call.account \in Account
        /\ proc[p].answer # None /\ Code(p) = "ok" =>
              /\ proc[p].pc \in {"verify", "refresh"} => proc[p].answer.tok \in Token
              /\ proc[p].pc \in {"sync", "snapshot"} => proc[p].call.s \in DOMAIN sessions

\* The newest generation has the fence, or will have it, and nobody else.
FenceOK ==
    /\ mem.gen > 0 /\ mem.token \in {0, mem.gen} /\ mem.pending <= mem.gen
    /\ \A p \in Proc : proc[p].gen <= mem.gen
    /\ \A p \in Run : ~Idling(p) => proc[p].gen > 0
    /\ \A i \in DOMAIN fences :
          /\ fences[i].gen <= mem.gen
          /\ fences[i].set => fences[i].token = fences[i].gen
          /\ fences[i].gen = mem.gen /\ ~fences[i].set => mem.token = 0
    /\ mem.token = mem.gen =>
          \/ disk.fence = mem.gen
          \/ \E i \in DOMAIN fences : fences[i].set /\ fences[i].gen = mem.gen
    /\ Installed => mem.token = mem.gen /\ disk.fence = mem.gen
    /\ proc["init"].pc = "fence" /\ IsCurrent("init") => mem.token = mem.gen
    /\ Flow.pc \in {"fence", "write", "activate", "again"} /\ IsCurrent("flow") => mem.token = mem.gen
    /\ mem.phase = "choose-merge" /\ mem.pending = mem.gen => mem.token = mem.gen
    /\ Flow.pc = "activate" /\ IsCurrent("flow") => disk.fence = mem.gen
    /\ Flow.pc = "logout" /\ IsCurrent("flow") => \A i \in DOMAIN fences : fences[i].gen # mem.gen

\* A page starts with the account that it was left with.
Starting ==
    ~Idling("init") =>
        /\ \A p \in Run : Idling(p)
        /\ Flow.pc \in {"idle", "code"}
        /\ mem.phase \in {"disconnected", "code-sent"} /\ ~Installed
        /\ proc["init"].account = disk.bound /\ mem.email = disk.bound
        /\ Carries("init", disk.bound) /\ Held(disk.bound)

\* A sign-in is for the address in the form, and finds nothing else going on.
SigningIn ==
    Flow.pc \in Signing =>
        /\ Alone /\ Flow.account = mem.email
        /\ mem.phase \in {"code-sent", "expired", "choose-merge"}
        /\ Flow.pc = "verify" =>
              /\ Flow.call.account = Flow.account
              /\ Flow.answer # None /\ Code("flow") = "ok" => Of(Flow.answer.tok.s, Flow.account)
        /\ Flow.pc # "verify" => Held(Flow.account)
        /\ Flow.pc = "snapshot" => Of(Flow.call.s, Flow.account)
        /\ Flow.pc \in {"fence", "write"} => Flow.snap = Flow.account
        /\ Flow.pc \in {"snapshot", "fence", "write"} => disk.bound \in {None, Flow.account}
        /\ Flow.pc \in {"activate", "again"} => disk.bound = Flow.account
        /\ Flow.pc \in {"snapshot", "fence", "write", "activate", "again"} => ~disk.enabled
        /\ Flow.pc \in {"fence", "write", "activate", "again"} => ~Installed

\* The user is asked about the snapshot of the account signed in to.
Choosing ==
    mem.phase = "choose-merge" =>
        /\ Alone /\ ~disk.enabled /\ ~Installed /\ Flow.pc # "code"
        /\ mem.snap # None /\ Flow.pc = "idle" =>
              mem.snap = mem.email /\ Held(mem.email) /\ disk.bound \in {None, mem.email}

Leaving ==
    /\ Flow.pc = "fail" => Alone /\ mem.phase # "connected"
    /\ Flow.pc \in Ends =>
          /\ Idling("init") /\ ~Installed
          /\ Flow.why \in {"fail", "cancel"} => Alone
          /\ \A p \in Run : proc[p].pc \in Going => IsCurrent("flow")

\* An engine that is installed writes for the account the data belong to.
Active ==
    Installed =>
        /\ Held(disk.bound) /\ mem.email = disk.bound
        /\ mem.phase \in {"connected", "code-sent"} /\ Idling("init")
        /\ Flow.pc \in {"idle", "code", "verify", "bind", "snapshot", "fail"}

\* One run, of the engine that is installed or of one that is gone; the latter
\* may write as long as its fence stands, which is about to be cleared.
Running(p) ==
    /\ Idling("init")
    /\ \A q \in Run : ~Idling(q) => p = q
    /\ Flow.pc \in {"idle", "code"} \cup Ends
    /\ mem.phase = "disconnected" => ~disk.enabled
    /\ Installed <=> (proc[p].pc \in Going /\ IsCurrent(p))
    /\ proc[p].pc \in Going /\ ~IsCurrent(p) =>
          /\ Flow.pc \in Ends \/ mem.phase # "connected"
          /\ InFence(p) => \E i \in DOMAIN fences : /\ ~fences[i].set /\ fences[i].gen = mem.gen
                                                    /\ fences[i].token = disk.fence
    /\ disk.enabled \/ IsCurrent(p) \/ InFence(p) => Carries(p, disk.bound)

Enabled ==
    disk.enabled =>
        /\ disk.email = disk.bound /\ TokenOf(disk.stored, disk.bound)
        /\ mem.phase # "disconnected" => mem.email = disk.bound

Ours ==
    /\ Starting /\ SigningIn /\ Choosing /\ Leaving /\ Active /\ Enabled
    /\ \A p \in Run : ~Idling(p) => Running(p)
    /\ NothingStrays

Counts == used \in [logins: Nat, reloads: Nat, faults: Nat]

Inv == TypeOK /\ Counts /\ Stages /\ CallsOK /\ FenceOK /\ (~hist.overtaken => Ours)

----------------------------------------------------------------------------
(* The records, field by field. *)

LEMMA IdleIs ==
    /\ Idle \in State /\ Idle.pc = "idle" /\ Idle.gen = 0 /\ Idle.call = None /\ Idle.answer = None
    /\ Idle.account = None /\ Idle.snap = None /\ Idle.why = "" /\ Idle.device = 0
    /\ Idle.retried = FALSE
<1>1. 0 \in Nat /\ "idle" \in Stage
  BY DEF Stage
<1> QED
  BY <1>1 DEF Idle, State

LEMMA RequestIs ==
    ASSUME NEW kind \in {"code", "verify", "refresh", "sync", "snapshot", "logout"}
    PROVE  /\ Request(kind) \in Calls
           /\ Request(kind).kind = kind /\ Request(kind).s = 0 /\ Request(kind).tok = None
           /\ Request(kind).account = None /\ Request(kind).device = 0
<1>1. 0 \in Nat
  OBVIOUS
<1> QED
  BY <1>1 DEF Request, Calls

LEMMA BegunIs ==
    ASSUME NEW m \in Mem
    PROVE  /\ Begun(m) \in Mem
           /\ Begun(m).gen = m.gen + 1 /\ Begun(m).token = m.gen + 1 /\ Begun(m).engine = 0
           /\ Begun(m).phase = m.phase /\ Begun(m).email = m.email /\ Begun(m).snap = m.snap
           /\ Begun(m).pending = m.pending /\ Begun(m).access = m.access /\ Begun(m).refresh = m.refresh
<1>1. PICK g \in Nat : g = m.gen + 1
  BY DEF Mem
<1>2. Begun(m) = [m EXCEPT !.gen = g, !.token = g, !.engine = 0] /\ 0 \in Nat
  BY <1>1 DEF Begun
<1>3. Begun(m) \in Mem
  BY <1>2 DEF Mem
<1> QED
  BY <1>1, <1>2, <1>3 DEF Mem

LEMMA DroppedIs ==
    ASSUME NEW m \in Mem, NEW d, d = Dropped(m)
    PROVE  /\ d \in Mem /\ d.gen = m.gen + 1 /\ d.token = 0 /\ d.engine = 0
           /\ d.phase = m.phase /\ d.email = m.email /\ d.snap = m.snap
           /\ d.pending = m.pending /\ d.access = m.access /\ d.refresh = m.refresh
<1>1. PICK g \in Nat : g = m.gen + 1
  BY DEF Mem
<1>2. d = [m EXCEPT !.gen = g, !.token = 0, !.engine = 0, !.identity = None] /\ 0 \in Nat
  BY <1>1 DEF Dropped
<1>3. d \in Mem
  BY <1>2 DEF Mem
<1> QED
  BY <1>1, <1>2, <1>3 DEF Mem

LEMMA WithTokensIs ==
    ASSUME NEW m \in Mem, NEW tok \in Token, NEW d, d = WithTokens(m, tok)
    PROVE  d \in Mem /\ d.access = [s |-> tok.s, fresh |-> TRUE] /\ d.refresh \in {None, tok}
<1>1. PICK x \in Token \cup {None} : x = IF disk.web THEN None ELSE tok
  OBVIOUS
<1>2. [s |-> tok.s, fresh |-> TRUE] \in [s: Nat, fresh: BOOLEAN]
  BY DEF Token
<1>3. PICK a \in [s: Nat, fresh: BOOLEAN] \cup {None} : a = [s |-> tok.s, fresh |-> TRUE]
  BY <1>2
<1>4. d = [m EXCEPT !.access = a, !.refresh = x]
  BY <1>1, <1>3 DEF WithTokens
<1>5. d \in Mem
  BY <1>4 DEF Mem
<1> QED
  BY <1>1, <1>3, <1>4, <1>5 DEF Mem

LEMMA TakesIs ==
    ASSUME NEW m \in Mem, NEW tok \in Token, NEW d, d = WithTokens(m, tok)
    PROVE  /\ d \in Mem /\ d.gen = m.gen /\ d.token = m.token /\ d.engine = m.engine
           /\ d.phase = m.phase /\ d.email = m.email /\ d.snap = m.snap /\ d.pending = m.pending
<1>1. PICK a, x : d = [m EXCEPT !.access = a, !.refresh = x]
  BY DEF WithTokens
<1>2. d \in Mem
  BY WithTokensIs
<1> QED
  BY <1>1, <1>2 DEF Mem


LEMMA WithoutTokensIs ==
    ASSUME NEW m \in Mem, NEW d, d = WithoutTokens(m)
    PROVE  /\ d \in Mem /\ d.access = None /\ d.refresh = None
           /\ d.gen = m.gen /\ d.token = m.token /\ d.engine = m.engine
           /\ d.phase = m.phase /\ d.email = m.email /\ d.snap = m.snap /\ d.pending = m.pending
<1>1. d = [m EXCEPT !.access = None, !.refresh = None]
  BY DEF WithoutTokens
<1>2. d \in Mem
  BY <1>1 DEF Mem
<1> QED
  BY <1>1, <1>2 DEF Mem

LEMMA BlankIs ==
    ASSUME NEW email \in Account, NEW gen \in Nat, NEW d, d = Blank(email, gen)
    PROVE  /\ d \in Mem /\ d.access = None /\ d.refresh = None
           /\ d.gen = gen /\ d.token = 0 /\ d.engine = 0
           /\ d.phase = "disconnected" /\ d.email = email /\ d.snap = None /\ d.pending = 0
<1>1. 0 \in Nat /\ "disconnected" \in Phases
  BY DEF Phases
<1> QED
  BY <1>1 DEF Blank, Mem

LEMMA KeepingIs ==
    ASSUME NEW d \in Disk, NEW tok \in Token, NEW e, e \in {Keeping(d, tok), CookieOnly(d, tok)}
    PROVE  /\ e \in Disk /\ e.stored \in {d.stored, tok}
           /\ e.fence = d.fence /\ e.bound = d.bound /\ e.email = d.email /\ e.enabled = d.enabled
<1>1. CASE e = [d EXCEPT !.stored = tok]
  <2>1. e \in Disk
    BY <1>1 DEF Disk
  <2> QED
    BY <1>1, <2>1 DEF Disk
<1>2. CASE e = d
  BY <1>2
<1> QED
  BY <1>1, <1>2 DEF Keeping, CookieOnly

LEMMA DroppingIs ==
    ASSUME NEW d \in Disk, NEW e, e \in {Dropping(d), [d EXCEPT !.stored = None]}
    PROVE  /\ e \in Disk /\ e.stored \in {d.stored, None}
           /\ e.fence = d.fence /\ e.bound = d.bound /\ e.email = d.email /\ e.enabled = d.enabled
<1>1. CASE e = [d EXCEPT !.stored = None]
  <2>1. e \in Disk
    BY <1>1 DEF Disk
  <2> QED
    BY <1>1, <2>1 DEF Disk
<1>2. CASE e = d
  BY <1>2
<1> QED
  BY <1>1, <1>2 DEF Dropping

LEMMA PersistedIs ==
    ASSUME TypeOK, NEW d \in Disk, NEW on \in BOOLEAN, NEW e, e = Persisted(d, on)
    PROVE  /\ e \in Disk /\ e.stored = d.stored
           /\ e.fence = d.fence /\ e.bound = d.bound /\ e.email = mem.email /\ e.enabled = on
<1>1. PICK a \in Account : a = mem.email
  BY DEF TypeOK, Mem
<1>2. e = [d EXCEPT !.enabled = on, !.email = a]
  BY <1>1 DEF Persisted
<1>3. e \in Disk
  BY <1>2 DEF Disk
<1> QED
  BY <1>1, <1>2, <1>3 DEF Disk

LEMMA CallingIs ==
    ASSUME NEW r \in State, NEW pc \in Stage, NEW c \in Calls, NEW q, q = Calling(r, pc, c)
    PROVE  /\ q \in State /\ q.pc = pc /\ q.call = c /\ q.answer = None
           /\ q.gen = r.gen /\ q.account = r.account /\ q.snap = r.snap /\ q.why = r.why
           /\ q.retried = r.retried /\ q.device = r.device
<1>1. q = [r EXCEPT !.pc = pc, !.call = c, !.answer = None]
  BY DEF Calling
<1>2. q \in State
  BY <1>1 DEF State
<1> QED
  BY <1>1, <1>2 DEF State

LEMMA AfterIs ==
    ASSUME NEW r \in State, NEW pc \in Stage, NEW gen \in Nat, NEW q, q = After(r, pc, gen)
    PROVE  /\ q \in State /\ q.pc = pc /\ q.call = None /\ q.answer = None
           /\ q.gen = gen /\ q.account = r.account /\ q.snap = r.snap /\ q.why = r.why
           /\ q.retried = r.retried /\ q.device = r.device
<1>1. q = [r EXCEPT !.pc = pc, !.gen = gen, !.call = None, !.answer = None]
  BY DEF After
<1>2. q \in State
  BY <1>1 DEF State
<1> QED
  BY <1>1, <1>2 DEF State

LEMMA StagedIs ==
    ASSUME NEW r \in State, NEW pc \in Stage, NEW q, q = [r EXCEPT !.pc = pc]
    PROVE  /\ q \in State /\ q.pc = pc /\ q.call = r.call /\ q.answer = r.answer
           /\ q.gen = r.gen /\ q.account = r.account /\ q.snap = r.snap /\ q.why = r.why
           /\ q.retried = r.retried /\ q.device = r.device
<1>1. q \in State
  BY DEF State
<1> QED
  BY <1>1 DEF State

LEMMA TokensType ==
    ASSUME TypeOK
    PROVE  HeldToken \in Token \cup {None} /\ SessionOf(mem) \in Nat
<1>1. mem.refresh \in Token \cup {None} /\ disk.stored \in Token \cup {None}
      /\ mem.access \in [s: Nat, fresh: BOOLEAN] \cup {None}
  BY DEF TypeOK, Mem, Disk
<1> QED
  BY <1>1 DEF HeldToken, SessionOf

LEMMA AskRefreshIs ==
    ASSUME TypeOK, NEW r \in State, NEW q, q = AskRefresh(r)
    PROVE  /\ q \in State /\ q.pc = "refresh" /\ q.answer = None
           /\ q.call \in Calls /\ q.call.kind = "refresh" /\ q.call.tok = HeldToken
           /\ q.gen = r.gen
<1>1. PICK t \in Token \cup {None} : t = HeldToken
  BY TokensType
<1>2. PICK c : c = [Request("refresh") EXCEPT !.tok = t]
  OBVIOUS
<1>3. c \in Calls
  BY <1>2, RequestIs DEF Calls
<1>4. c.kind = "refresh" /\ c.tok = t
  BY <1>2, RequestIs DEF Calls
<1>5. q = Calling(r, "refresh", c) /\ "refresh" \in Stage
  BY <1>1, <1>2 DEF AskRefresh, Stage
<1> QED
  BY <1>1, <1>3, <1>4, <1>5, CallingIs

LEMMA AskSyncIs ==
    ASSUME NEW r \in State, NEW m \in Mem, NEW q, q = AskSync(r, m)
    PROVE  /\ q \in State /\ q.pc = "sync" /\ q.answer = None
           /\ q.call \in Calls /\ q.call.kind = "sync" /\ q.call.s = SessionOf(m)
           /\ q.gen = r.gen
<1>1. PICK s \in Nat : s = SessionOf(m)
  BY DEF Mem, SessionOf
<1>2. PICK c : c = [Request("sync") EXCEPT !.s = s, !.device = r.device]
  OBVIOUS
<1>3. r.device \in Nat
  BY DEF State
<1>4. c \in Calls
  BY <1>2, <1>3, RequestIs DEF Calls
<1>5. c.kind = "sync" /\ c.s = s
  BY <1>2, <1>4, RequestIs DEF Calls
<1>6. q = Calling(r, "sync", c) /\ "sync" \in Stage
  BY <1>1, <1>2 DEF AskSync, Stage
<1> QED
  BY <1>1, <1>4, <1>5, <1>6, CallingIs

\* One flow goes on, the others stay where they are.
LEMMA GoIs ==
    ASSUME TypeOK, NEW p \in Proc, NEW r \in State, Go(p, r)
    PROVE  /\ proc' \in [Proc -> State] /\ proc'[p] = r
           /\ \A q \in Proc : q # p => proc'[q] = proc[q]
BY DEF TypeOK, Go

----------------------------------------------------------------------------
(* The service. *)

\* Sessions stay with their accounts.
Grows == \A s \in DOMAIN sessions : s \in DOMAIN sessions' /\ sessions'[s].account = sessions[s].account

LEMMA OfGrows ==
    ASSUME Grows, NEW s, NEW a, Of(s, a)
    PROVE  Of(s, a)'
BY DEF Grows, Of

LEMMA EndedIs ==
    ASSUME sessions \in Seq(Session), NEW s, NEW t, t = Ended(s)
    PROVE  /\ t \in Seq(Session) /\ DOMAIN t = DOMAIN sessions
           /\ \A i \in DOMAIN sessions : t[i].account = sessions[i].account
<1>1. CASE s \in DOMAIN sessions
  <2>1. sessions[s] \in Session
    BY <1>1
  <2>2. PICK x : x = [sessions[s] EXCEPT !.live = FALSE]
    OBVIOUS
  <2>3. x \in Session /\ x.account = sessions[s].account
    BY <2>1, <2>2 DEF Session
  <2>4. t = [sessions EXCEPT ![s] = x]
    BY <2>2 DEF Ended
  <2> QED
    BY <1>1, <2>3, <2>4
<1>2. CASE s \notin DOMAIN sessions
  <2>1. t = sessions
    BY <1>2 DEF Ended
  <2> QED
    BY <2>1
<1> QED
  BY <1>1, <1>2

LEMMA RefreshedIs ==
    ASSUME sessions \in Seq(Session), NEW tok \in Token \cup {None}, NEW t, t = Refreshed(tok)
    PROVE  /\ t \in Seq(Session) /\ DOMAIN t = DOMAIN sessions
           /\ \A i \in DOMAIN sessions : t[i].account = sessions[i].account
<1>1. CASE tok = None
  BY <1>1 DEF Refreshed
<1>2. CASE tok # None /\ Current(tok)
  <2>1. PICK s \in DOMAIN sessions : s = tok.s
    BY <1>2 DEF Current, Alive
  <2>2. sessions[s] \in Session
    OBVIOUS
  <2>3. PICK n \in Nat : n = sessions[s].n + 1
    BY <2>2 DEF Session
  <2>4. PICK x : x = [sessions[s] EXCEPT !.n = n]
    OBVIOUS
  <2>5. x \in Session /\ x.account = sessions[s].account
    BY <2>2, <2>4 DEF Session
  <2>6. t = [sessions EXCEPT ![s] = x]
    BY <1>2, <2>1, <2>3, <2>4 DEF Refreshed
  <2> QED
    BY <2>5, <2>6
<1>3. CASE tok # None /\ ~Current(tok)
  BY <1>3, EndedIs DEF Refreshed
<1> QED
  BY <1>1, <1>2, <1>3

LEMMA HandledIs ==
    ASSUME sessions \in Seq(Session), NEW c \in Calls, NEW t, t = Handled(c),
           c.kind = "verify" => c.account \in Account
    PROVE  /\ t \in Seq(Session)
           /\ \A i \in DOMAIN sessions : i \in DOMAIN t /\ t[i].account = sessions[i].account
           /\ c.kind = "verify" =>
                 Len(sessions) + 1 \in DOMAIN t /\ t[Len(sessions) + 1].account = c.account
<1>1. CASE c.kind = "verify"
  <2>1. PICK x : x = [account |-> c.account, device |-> c.device, n |-> 0, live |-> TRUE]
    OBVIOUS
  <2>2. x \in Session /\ x.account = c.account
    <3>1. 0 \in Nat /\ c.device \in Nat
      BY DEF Calls
    <3> QED
      BY <1>1, <2>1, <3>1 DEF Session
  <2>3. t = Append(sessions, x)
    BY <1>1, <2>1 DEF Handled
  <2>4. t \in Seq(Session) /\ Len(t) = Len(sessions) + 1
    BY <2>2, <2>3
  <2>5. \A i \in DOMAIN sessions : i \in DOMAIN t /\ t[i] = sessions[i]
    BY <2>3
  <2>6. t[Len(sessions) + 1] = x
    BY <2>3
  <2> QED
    BY <2>2, <2>4, <2>5, <2>6
<1>2. CASE c.kind = "refresh"
  <2>1. t = Refreshed(c.tok) /\ c.tok \in Token \cup {None}
    BY <1>2 DEF Handled, Calls
  <2> QED
    BY <1>2, <2>1, RefreshedIs
<1>3. CASE c.kind \notin {"verify", "refresh"}
  <2>1. t = sessions \/ t = Ended(c.s)
    BY <1>3 DEF Handled
  <2> QED
    BY <1>3, <2>1, EndedIs
<1> QED
  BY <1>1, <1>2, <1>3

LEMMA AnswerIs ==
    ASSUME NEW code \in {"ok", "401", "403", "lost"}, NEW a, a = Answer(code)
    PROVE  a \in Answers /\ a.code = code /\ a.tok = None
BY DEF Answer, Answers

LEMMA ReplyIs ==
    ASSUME sessions \in Seq(Session), NEW c \in Calls, NEW a, a = Reply(c)
    PROVE  /\ a \in Answers
           /\ a.code = "ok" /\ c.kind = "verify" => a.tok \in Token /\ a.tok.s = Len(sessions) + 1
           /\ a.code = "ok" /\ c.kind = "refresh" =>
                 a.tok \in Token /\ c.tok # None /\ a.tok.s = c.tok.s
           /\ a.code = "ok" /\ c.kind \in {"sync", "snapshot"} => c.s \in DOMAIN sessions
<1>1. CASE c.kind = "verify"
  <2>1. PICK t : t = [s |-> Len(sessions) + 1, n |-> 0]
    OBVIOUS
  <2>2. Len(sessions) + 1 \in Nat \ {0} /\ 0 \in Nat
    OBVIOUS
  <2>3. t \in Token /\ t.s = Len(sessions) + 1
    BY <2>1, <2>2 DEF Token
  <2>4. a = [code |-> "ok", tok |-> t]
    BY <1>1, <2>1 DEF Reply
  <2>5. a \in Answers
    BY <2>3, <2>4 DEF Answers
  <2> QED
    BY <1>1, <2>3, <2>4, <2>5
<1>2. CASE c.kind = "refresh" /\ Current(c.tok)
  <2>1. c.tok \in Token /\ c.tok # None
    BY <1>2 DEF Calls, Current
  <2>2. PICK n \in Nat : n = c.tok.n + 1
    BY <2>1 DEF Token
  <2>3. PICK t : t = [c.tok EXCEPT !.n = n]
    OBVIOUS
  <2>4. t \in Token /\ t.s = c.tok.s
    BY <2>1, <2>3 DEF Token
  <2>5. a = [code |-> "ok", tok |-> t]
    BY <1>2, <2>2, <2>3 DEF Reply
  <2>6. a \in Answers
    BY <2>4, <2>5 DEF Answers
  <2> QED
    BY <1>2, <2>1, <2>4, <2>5, <2>6
<1>3. CASE c.kind = "refresh" /\ ~Current(c.tok)
  <2>1. a = Answer("401")
    BY <1>3 DEF Reply
  <2> QED
    BY <1>3, <2>1, AnswerIs
<1>4. CASE c.kind \notin {"verify", "refresh"}
  <2>1. a \in {Answer("ok"), Answer("401"), Answer("403")}
    BY <1>4 DEF Reply
  <2>2. a.code = "ok" /\ c.kind \in {"sync", "snapshot"} => Alive(c.s)
    BY <1>4, AnswerIs DEF Reply
  <2>3. a \in Answers
    BY <2>1, AnswerIs
  <2> QED
    BY <1>4, <2>2, <2>3 DEF Alive
<1> QED
  BY <1>1, <1>2, <1>3, <1>4

\* What a flow carries it still carries when the service goes on.
LEMMA CarriesGrows ==
    ASSUME Grows, NEW p \in Proc, NEW a, Carries(p, a), proc'[p] = proc[p]
    PROVE  Carries(p, a)'
<1>1. /\ proc[p].pc = "refresh" => TokenOf(proc[p].call.tok, a)'
      /\ Got(p, "refresh") /\ Code(p) = "ok" => Of(proc[p].answer.tok.s, a)'
      /\ proc[p].pc \in {"sync", "apply", "snapshot"} => Of(proc[p].call.s, a)'
  BY OfGrows DEF Carries, TokenOf
<1> QED
  BY <1>1 DEF Carries, TokenOf, Of, Got, Code

LEMMA HeldGrows ==
    ASSUME Grows, NEW a, Held(a), mem' = mem, disk' = disk
    PROVE  Held(a)'
<1>1. Of(SessionOf(mem), a)' /\ TokenOf(mem.refresh, a)' /\ TokenOf(disk.stored, a)'
  <2>1. PICK s, r, t : s = SessionOf(mem) /\ r = mem.refresh /\ t = disk.stored
    OBVIOUS
  <2>2. s = SessionOf(mem)' /\ r = mem'.refresh /\ t = disk'.stored
    BY <2>1
  <2>3. Of(s, a) /\ TokenOf(r, a) /\ TokenOf(t, a)
    BY <2>1 DEF Held
  <2>4. Of(s, a)' /\ TokenOf(r, a)' /\ TokenOf(t, a)'
    BY <2>3, OfGrows DEF TokenOf
  <2> QED
    BY <2>2, <2>4
<1> QED
  BY <1>1 DEF Held

\* A call is answered, or lost.
LEMMA AnsweredStep ==
    ASSUME Inv, NEW p \in Proc, proc[p].call # None, NEW a \in Answers,
           proc' = [proc EXCEPT ![p].answer = a],
           sessions' \in Seq(Session), Grows,
           UNCHANGED <<disk, mem, fences, late, hist>>, Counts',
           a.code = "ok" =>
              /\ proc[p].pc \in {"verify", "refresh"} => a.tok \in Token
              /\ proc[p].pc \in {"sync", "snapshot"} => proc[p].call.s \in DOMAIN sessions'
              /\ proc[p].pc = "refresh" => proc[p].call.tok # None /\ a.tok.s = proc[p].call.tok.s
              /\ proc[p].pc = "verify" => \E x : x = proc[p].call.account /\ Of(a.tok.s, x)'
    PROVE  Inv'
<1>1. TypeOK /\ proc[p] \in State
  BY DEF Inv, TypeOK
<1>0. PICK q : q = [proc[p] EXCEPT !.answer = a]
  OBVIOUS
<1>2. /\ q \in State /\ q.pc = proc[p].pc /\ q.call = proc[p].call /\ q.answer = a
      /\ q.gen = proc[p].gen /\ q.account = proc[p].account /\ q.snap = proc[p].snap
      /\ q.why = proc[p].why
  BY <1>0, <1>1 DEF State
<1>3. Go(p, q)
  BY <1>0, <1>1 DEF Go, TypeOK
<1>4. /\ proc' \in [Proc -> State] /\ proc'[p] = q
      /\ \A r \in Proc : r # p => proc'[r] = proc[r]
  BY <1>1, <1>2, <1>3, GoIs
<1>5. \A r \in Proc :
        /\ proc'[r].pc = proc[r].pc /\ proc'[r].call = proc[r].call
        /\ proc'[r].gen = proc[r].gen /\ proc'[r].account = proc[r].account
        /\ proc'[r].snap = proc[r].snap /\ proc'[r].why = proc[r].why
  BY <1>2, <1>4
<1>6. TypeOK'
  BY <1>1, <1>4 DEF TypeOK
<1>7. "init" \in Proc /\ "flow" \in Proc /\ Run \subseteq Proc
  BY DEF Proc
<1>8. Stages'
  BY <1>5, <1>7 DEF Inv, Stages, Idling, Flow
<1>9. CallsOK'
  <2> SUFFICES ASSUME NEW r \in Proc
               PROVE  /\ proc'[r].pc \in Asking => proc'[r].call \in Calls /\ proc'[r].call.kind = proc'[r].pc
                      /\ proc'[r].pc = "apply" => /\ proc'[r].call \in Calls /\ proc'[r].call.kind = "sync"
                                                 /\ proc'[r].call.s \in DOMAIN sessions'
                      /\ proc'[r].call # None => proc'[r].pc \in Asking \cup {"apply"}
                      /\ proc'[r].pc = "verify" => proc'[r].call.account \in Account
                      /\ proc'[r].answer # None /\ proc'[r].answer.code = "ok" =>
                            /\ proc'[r].pc \in {"verify", "refresh"} => proc'[r].answer.tok \in Token
                            /\ proc'[r].pc \in {"sync", "snapshot"} => proc'[r].call.s \in DOMAIN sessions'
    BY DEF CallsOK, Code
  <2>1. CASE r = p
    BY <1>2, <1>4, <1>5, <2>1 DEF Inv, CallsOK, Grows
  <2>2. CASE r # p
    BY <1>4, <2>2 DEF Inv, CallsOK, Grows, Code
  <2> QED
    BY <2>1, <2>2
<1>10. FenceOK'
  BY <1>5, <1>7 DEF Inv, FenceOK, Idling, Flow, Installed, IsCurrent
<1>11. ASSUME ~hist'.overtaken PROVE Ours'
  <2>1. Ours
    BY <1>11 DEF Inv
  <2>2. ASSUME NEW r \in Proc, NEW b, Carries(r, b) PROVE Carries(r, b)'
    <3>1. CASE r # p
      BY <1>4, <2>2, <3>1, CarriesGrows
    <3>2. CASE r = p
      <4>0. PICK c, u : c = proc[p].call /\ u = c.tok
        OBVIOUS
      <4>1. proc[p].pc = "refresh" => TokenOf(u, b) /\ TokenOf(u, b)'
        BY <2>2, <3>2, <4>0, OfGrows DEF Carries, TokenOf
      <4>2. proc[p].pc = "refresh" /\ a.code = "ok" => Of(a.tok.s, b)'
        BY <4>0, <4>1, OfGrows DEF TokenOf
      <4>3. proc[p].pc \in {"sync", "apply", "snapshot"} => Of(c.s, b)'
        BY <2>2, <3>2, <4>0, OfGrows DEF Carries
      <4>4. proc'[r].pc = proc[p].pc /\ proc'[r].call = c /\ proc'[r].answer = a
        BY <1>2, <1>4, <3>2, <4>0
      <4> QED
        BY <4>0, <4>1, <4>2, <4>3, <4>4 DEF Carries, Got, Code
    <3> QED
      BY <3>1, <3>2
  <2>3. ASSUME NEW b, Held(b) PROVE Held(b)'
    BY <2>3, HeldGrows
  <2>4. ASSUME NEW r, NEW b, TokenOf(r, b) PROVE TokenOf(r, b)'
    BY <2>4, OfGrows DEF TokenOf
  <2>5. Starting'
    BY <1>5, <1>7, <2>1, <2>2, <2>3 DEF Ours, Starting, Idling, Flow, Installed
  <2>6. ASSUME Flow'.pc \in Signing PROVE SigningIn'
    <3>1. SigningIn /\ Flow.pc \in Signing /\ Flow' = proc'["flow"] /\ Flow = proc["flow"]
      BY <1>5, <1>7, <2>1, <2>6 DEF Ours, Flow
    <3>2. PICK x, c, y : x = Flow.account /\ c = Flow.call /\ y = Flow'.answer
      OBVIOUS
    <3>3. /\ Flow'.pc = Flow.pc /\ Flow'.account = x /\ Flow'.snap = Flow.snap /\ Flow'.call = c
      BY <1>5, <1>7, <3>1, <3>2
    <3>4. Flow.pc = "verify" =>
              /\ c.account = x
              /\ y # None /\ y.code = "ok" => Of(y.tok.s, x)'
      <4>1. CASE p = "flow"
        BY <1>2, <1>4, <3>1, <3>2, <4>1 DEF SigningIn
      <4>2. CASE p # "flow"
        <5>1. PICK s : s = y.tok.s
          OBVIOUS
        <5>2. Flow' = Flow
          BY <1>4, <1>7, <3>1, <4>2
        <5>3. Flow.pc = "verify" /\ y # None /\ y.code = "ok" => Of(s, x)
          BY <3>1, <3>2, <5>1, <5>2 DEF SigningIn, Code, Flow
        <5>4. Of(s, x) => Of(s, x)'
          BY OfGrows
        <5> QED
          BY <3>1, <3>2, <5>1, <5>2, <5>3, <5>4 DEF SigningIn
      <4> QED
        BY <4>1, <4>2
    <3>5. Flow.pc # "verify" => Held(x)'
      BY <2>3, <3>1, <3>2 DEF SigningIn
    <3>6. Flow.pc = "snapshot" => Of(c.s, x)'
      <4>1. PICK s : s = c.s
        OBVIOUS
      <4>2. Flow.pc = "snapshot" => Of(s, x)
        BY <3>1, <3>2, <4>1 DEF SigningIn
      <4> QED
        BY <4>1, <4>2, OfGrows
    <3>7. Alone'
      BY <1>5, <1>7, <3>1 DEF SigningIn, Alone, Idling
    <3> QED
      BY <3>1, <3>2, <3>3, <3>4, <3>5, <3>6, <3>7 DEF SigningIn, Installed, Code
  <2>7. Choosing'
    BY <1>5, <1>7, <2>1, <2>3 DEF Ours, Choosing, Alone, Idling, Flow, Installed
  <2>8. Leaving'
    BY <1>5, <1>7, <2>1 DEF Ours, Leaving, Alone, Idling, Flow, Installed, IsCurrent
  <2>9. Active'
    BY <1>5, <1>7, <2>1, <2>3 DEF Ours, Active, Idling, Flow, Installed
  <2>10. Enabled'
    BY <2>1, <2>4 DEF Ours, Enabled
  <2>11. ASSUME NEW r \in Run, ~Idling(r)' PROVE Running(r)'
    <3>1. Running(r)
      BY <1>5, <1>7, <2>1, <2>11 DEF Ours, Idling
    <3> QED
      BY <1>5, <1>7, <2>2, <3>1 DEF Running, Idling, Flow, Installed, IsCurrent, InFence
  <2> QED
    BY <2>1, <2>5, <2>6, <2>7, <2>8, <2>9, <2>10, <2>11 DEF Ours, NothingStrays, SigningIn
<1> QED
  BY <1>6, <1>8, <1>9, <1>10, <1>11 DEF Inv

LEMMA SessionsStep ==
    ASSUME Inv, sessions' \in Seq(Session), Grows, late' \subseteq Token, Counts',
           UNCHANGED <<disk, mem, proc, fences, hist>>
    PROVE  Inv'
<1>1. TypeOK'
  BY DEF Inv, TypeOK
<1>2. "init" \in Proc /\ "flow" \in Proc /\ Run \subseteq Proc /\ Flow' = Flow
  BY DEF Proc, Flow
<1>3. Stages' /\ FenceOK'
  BY <1>2 DEF Inv, Stages, FenceOK, Idling, Installed, IsCurrent
<1>4. CallsOK'
  BY DEF Inv, CallsOK, Grows, Code
<1>5. ASSUME ~hist'.overtaken PROVE Ours'
  <2>1. Ours
    BY <1>5 DEF Inv
  <2>2. ASSUME NEW r \in Proc, NEW b, Carries(r, b) PROVE Carries(r, b)'
    BY <2>2, CarriesGrows
  <2>3. ASSUME NEW b, Held(b) PROVE Held(b)'
    BY <2>3, HeldGrows
  <2>4. ASSUME NEW r, NEW b, TokenOf(r, b) PROVE TokenOf(r, b)'
    BY <2>4, OfGrows DEF TokenOf
  <2>5. Starting'
    BY <1>2, <2>1, <2>2, <2>3 DEF Ours, Starting, Idling, Installed
  <2>6. SigningIn'
    <3>1. PICK x, s, u : x = Flow.account /\ s = Flow.call.s /\ u = Flow.answer.tok.s
      OBVIOUS
    <3>2. (Of(s, x) => Of(s, x)') /\ (Of(u, x) => Of(u, x)') /\ (Held(x) => Held(x)')
      BY <2>3, OfGrows
    <3> QED
      BY <1>2, <2>1, <3>1, <3>2 DEF Ours, SigningIn, Alone, Idling, Installed, Code
  <2>7. Choosing' /\ Leaving' /\ Active' /\ Enabled'
    BY <1>2, <2>1, <2>3, <2>4
       DEF Ours, Choosing, Leaving, Active, Enabled, Alone, Idling, Installed, IsCurrent
  <2>8. ASSUME NEW r \in Run, ~Idling(r)' PROVE Running(r)'
    BY <1>2, <2>1, <2>2, <2>8 DEF Ours, Running, Idling, Installed, IsCurrent, InFence
  <2> QED
    BY <2>1, <2>5, <2>6, <2>7, <2>8 DEF Ours, NothingStrays
<1> QED
  BY <1>1, <1>3, <1>4, <1>5 DEF Inv

LEMMA ServeStep ==
    ASSUME Inv, NEW p \in Proc, Serve(p)
    PROVE  Inv'
<1>1. /\ sessions \in Seq(Session) /\ proc[p].call # None /\ Counts' /\ TypeOK
  BY DEF Inv, TypeOK, Serve, Waiting, Counts
<1>2. PICK c \in Calls : /\ c = proc[p].call /\ (c.kind = "verify" => c.account \in Account)
                         /\ proc[p].pc \in Asking => c.kind = proc[p].pc
  BY <1>1 DEF Inv, CallsOK, Asking
<1>3. CASE /\ proc' = [proc EXCEPT ![p].answer = Answer("401")] /\ sessions' = sessions
  <2>1. PICK a \in Answers : a = Answer("401") /\ a.code # "ok"
    BY AnswerIs
  <2> QED
    BY <1>1, <1>3, <2>1, AnsweredStep DEF Serve, Grows
<1>4. CASE /\ proc' = [proc EXCEPT ![p].answer = Reply(proc[p].call)] /\ sessions' = Handled(proc[p].call)
  <2>1. PICK a \in Answers :
           /\ a = Reply(c)
           /\ a.code = "ok" /\ c.kind = "verify" => a.tok \in Token /\ a.tok.s = Len(sessions) + 1
           /\ a.code = "ok" /\ c.kind = "refresh" =>
                 a.tok \in Token /\ c.tok # None /\ a.tok.s = c.tok.s
           /\ a.code = "ok" /\ c.kind \in {"sync", "snapshot"} => c.s \in DOMAIN sessions
    BY <1>1, ReplyIs
  <2>2. /\ sessions' \in Seq(Session) /\ Grows
        /\ c.kind = "verify" =>
              Len(sessions) + 1 \in DOMAIN sessions' /\ sessions'[Len(sessions) + 1].account = c.account
    BY <1>1, <1>2, <1>4, HandledIs DEF Grows
  <2>3. PICK k : k = proc[p].pc /\ (k \in Asking => c.kind = k)
    BY <1>2
  <2>4. /\ k \in {"verify", "refresh"} /\ a.code = "ok" => a.tok \in Token
        /\ k \in {"sync", "snapshot"} /\ a.code = "ok" => c.s \in DOMAIN sessions'
        /\ k = "refresh" /\ a.code = "ok" => c.tok # None /\ a.tok.s = c.tok.s
    BY <2>1, <2>2, <2>3 DEF Asking, Grows
  <2>5. k = "verify" /\ a.code = "ok" => \E x : x = c.account /\ Of(a.tok.s, x)'
    <3> SUFFICES ASSUME k = "verify", a.code = "ok"
                 PROVE  \E x : x = c.account /\ Of(a.tok.s, x)'
      OBVIOUS
    <3>1. PICK x, n : x = c.account /\ n = Len(sessions) + 1
      OBVIOUS
    <3>2. a.tok.s = n /\ n \in DOMAIN sessions' /\ sessions'[n].account = x
      BY <2>1, <2>2, <2>3, <3>1 DEF Asking
    <3>3. Of(a.tok.s, x)'
      BY <3>2 DEF Of
    <3> QED
      BY <3>1, <3>3
  <2>6. UNCHANGED <<disk, mem, fences, late, hist>>
    BY DEF Serve
  <2>7. proc' = [proc EXCEPT ![p].answer = a]
    BY <1>2, <1>4, <2>1
  <2>8. a.code = "ok" =>
              /\ proc[p].pc \in {"verify", "refresh"} => a.tok \in Token
              /\ proc[p].pc \in {"sync", "snapshot"} => proc[p].call.s \in DOMAIN sessions'
              /\ proc[p].pc = "refresh" => proc[p].call.tok # None /\ a.tok.s = proc[p].call.tok.s
              /\ proc[p].pc = "verify" => \E x : x = proc[p].call.account /\ Of(a.tok.s, x)'
    BY <1>2, <2>3, <2>4, <2>5
  <2> QED
    BY <1>1, <2>2, <2>6, <2>7, <2>8, AnsweredStep
<1> QED
  BY <1>3, <1>4 DEF Serve

LEMMA SpendIs ==
    ASSUME Counts, NEW b \in {"logins", "reloads", "faults"}, NEW max, Spend(b, max)
    PROVE  Counts'
<1>1. PICK n \in Nat : n = used[b] + 1
  BY DEF Counts
<1>2. used' = [used EXCEPT ![b] = n]
  BY <1>1 DEF Spend
<1> QED
  BY <1>2 DEF Counts

LEMMA LoseStep ==
    ASSUME Inv, NEW p \in Proc, Lose(p)
    PROVE  Inv'
<1>1. PICK a \in Answers : a = Answer("lost") /\ a.code # "ok"
  BY AnswerIs
<1>2. Counts' /\ Grows /\ sessions' \in Seq(Session)
  BY SpendIs DEF Inv, TypeOK, Lose, Grows
<1> QED
  BY <1>1, <1>2, AnsweredStep DEF Lose

LEMMA ServeLateStep ==
    ASSUME Inv, ServeLate
    PROVE  Inv'
<1>1. PICK tok \in late : /\ late' = late \ {tok}
                          /\ sessions' = Refreshed(tok) \/ sessions' = sessions
                          /\ UNCHANGED <<disk, mem, proc, fences, hist, used>>
  BY DEF ServeLate
<1>2. tok \in Token /\ sessions \in Seq(Session) /\ late' \subseteq Token /\ Counts'
  BY <1>1 DEF Inv, TypeOK, Counts
<1>3. sessions' \in Seq(Session) /\ Grows
  BY <1>1, <1>2, RefreshedIs DEF Grows
<1> QED
  BY <1>1, <1>2, <1>3, SessionsStep

LEMMA EndElsewhereStep ==
    ASSUME Inv, EndElsewhere
    PROVE  Inv'
<1>1. PICK s \in DOMAIN sessions : sessions' = Ended(s)
  BY DEF EndElsewhere
<1>2. sessions \in Seq(Session) /\ late' \subseteq Token
  BY DEF Inv, TypeOK, EndElsewhere
<1>3. Counts'
  BY SpendIs DEF Inv, EndElsewhere
<1>4. sessions' \in Seq(Session) /\ Grows
  BY <1>1, <1>2, EndedIs DEF Grows
<1> QED
  BY <1>2, <1>3, <1>4, SessionsStep DEF EndElsewhere

----------------------------------------------------------------------------
(* Expiry, the fence, and the start of a page. *)

LEMMA Procs == /\ "init" \in Proc /\ "flow" \in Proc /\ Run \subseteq Proc
               /\ \A p \in Run : p # "init" /\ p # "flow"
BY CloudAssumption DEF CloudAssumption, Proc

LEMMA Element ==
    ASSUME NEW S, NEW s \in Seq(S), NEW i \in DOMAIN s
    PROVE  s[i] \in S
OBVIOUS

LEMMA ExpireStep ==
    ASSUME Inv, Expire
    PROVE  Inv'
<1>1. mem \in Mem /\ mem.access # None /\ UNCHANGED <<sessions, disk, proc, fences, late, hist>>
  BY DEF Inv, TypeOK, Expire, Fresh
<1>2. PICK a : a = [mem.access EXCEPT !.fresh = FALSE]
  OBVIOUS
<1>3. mem.access \in [s: Nat, fresh: BOOLEAN]
  BY <1>1 DEF Mem
<1>4. a \in [s: Nat, fresh: BOOLEAN] /\ a.s = mem.access.s
  BY <1>2, <1>3
<1>5. mem' = [mem EXCEPT !.access = a]
  BY <1>1, <1>2 DEF Expire
<1>6. mem' \in Mem
  BY <1>1, <1>4, <1>5 DEF Mem
<1>7. /\ mem'.gen = mem.gen /\ mem'.token = mem.token /\ mem'.engine = mem.engine
      /\ mem'.phase = mem.phase /\ mem'.email = mem.email /\ mem'.snap = mem.snap
      /\ mem'.pending = mem.pending /\ mem'.refresh = mem.refresh /\ mem'.access = a
  BY <1>1, <1>5, <1>6 DEF Mem
<1>8. TypeOK' /\ Counts'
  BY <1>1, <1>6, SpendIs DEF Inv, TypeOK, Expire
<1>9. Stages' /\ CallsOK' /\ FenceOK'
  BY <1>1, <1>7 DEF Inv, Stages, CallsOK, FenceOK, Idling, Flow, Installed, IsCurrent, Code
<1>10. ASSUME ~hist'.overtaken PROVE Ours'
  <2>1. Ours
    BY <1>1, <1>10 DEF Inv
  <2>2. ASSUME NEW b, Held(b) PROVE Held(b)'
    <3>1. SessionOf(mem)' = SessionOf(mem) \/ Of(SessionOf(mem), b)'
      BY <1>1, <1>4, <1>7 DEF SessionOf, Of
    <3> QED
      BY <1>1, <1>7, <2>2, <3>1 DEF Held, TokenOf, Of
  <2>3. Starting' /\ Choosing' /\ Leaving' /\ Active' /\ Enabled'
    BY <1>1, <1>7, <2>1, <2>2 DEF Ours, Starting, Choosing, Leaving, Active, Enabled, Alone, Idling,
         Flow, Installed, IsCurrent, Carries, Got, Code, TokenOf, Of
  <2>4. SigningIn'
    <3>1. Flow.pc = "idle"
      BY DEF Expire, Flow
    <3> QED
      BY <1>1, <3>1 DEF SigningIn, Signing, Flow
  <2>5. ASSUME NEW r \in Run, ~Idling(r)' PROVE Running(r)'
    BY <1>1, <1>7, <2>1, <2>5 DEF Ours, Running, Idling, Flow, Installed, IsCurrent, InFence, Carries,
         Got, Code, TokenOf, Of
  <2> QED
    BY <1>1, <2>1, <2>3, <2>4, <2>5 DEF Ours, NothingStrays
<1> QED
  BY <1>8, <1>9, <1>10 DEF Inv

LEMMA FenceStepStep ==
    ASSUME Inv, FenceStep
    PROVE  Inv'
<1>1. /\ disk \in Disk /\ fences \in Seq([set: BOOLEAN, gen: Nat, token: Nat]) /\ fences # <<>>
      /\ mem \in Mem /\ UNCHANGED <<sessions, mem, proc, late, hist, used>>
  BY DEF Inv, TypeOK, FenceStep
<1>2. PICK f \in [set: BOOLEAN, gen: Nat, token: Nat] : f = fences[1] /\ 1 \in DOMAIN fences
  <2>1. 1 \in DOMAIN fences
    BY <1>1
  <2>2. fences[1] \in [set: BOOLEAN, gen: Nat, token: Nat]
    BY <1>1, <2>1, Element
  <2> QED
    BY <2>1, <2>2
<1>3. PICK n \in Nat :
        /\ n = IF f.gen # mem.gen THEN disk.fence
               ELSE IF f.set THEN f.token
               ELSE IF f.token # 0 /\ disk.fence = f.token THEN 0 ELSE disk.fence
  BY <1>1 DEF Disk
<1>4. f = Head(fences) /\ (disk' = disk \/ disk' = [disk EXCEPT !.fence = n]) /\ (disk' = disk => n = disk.fence)
  <2>1. f = Head(fences)
    BY <1>1, <1>2
  <2>2. CASE f.gen # mem.gen \/ (~f.set /\ ~(f.token # 0 /\ disk.fence = f.token))
    BY <1>3, <2>1, <2>2 DEF FenceStep
  <2>3. CASE f.gen = mem.gen /\ (f.set \/ (f.token # 0 /\ disk.fence = f.token))
    <3>1. disk' = [disk EXCEPT !.fence = n]
      BY <1>3, <2>1, <2>3 DEF FenceStep
    <3> QED
      BY <1>1, <2>1, <3>1 DEF Disk
  <2> QED
    BY <2>1, <2>2, <2>3
<1>5. /\ disk' \in Disk /\ disk'.fence = n /\ disk'.bound = disk.bound /\ disk'.email = disk.email
      /\ disk'.enabled = disk.enabled /\ disk'.stored = disk.stored
  <2>1. disk' \in Disk
    BY <1>1, <1>4 DEF Disk
  <2> QED
    BY <1>1, <1>4, <2>1 DEF Disk
<1>6. /\ fences' \in Seq([set: BOOLEAN, gen: Nat, token: Nat])
      /\ \A i \in DOMAIN fences' : i + 1 \in DOMAIN fences /\ fences'[i] = fences[i + 1]
      /\ \A i \in DOMAIN fences : i = 1 \/ (i - 1 \in DOMAIN fences' /\ fences'[i - 1] = fences[i])
  <2>1. fences' = Tail(fences)
    BY DEF FenceStep
  <2> QED
    BY <1>1, <2>1
<1>7. TypeOK' /\ Counts'
  BY <1>1, <1>5, <1>6 DEF Inv, TypeOK, Counts
<1>8. Stages' /\ CallsOK'
  BY <1>1 DEF Inv, Stages, CallsOK, Idling, Flow, Code
<1>9. FenceOK'
  <2>1. FenceOK /\ mem.gen \in Nat /\ f.gen \in Nat /\ f.token \in Nat /\ disk.fence \in Nat
    BY <1>1 DEF Inv, Mem, Disk
  <2>2. /\ f.gen <= mem.gen /\ (f.set => f.token = f.gen)
        /\ f.gen = mem.gen /\ ~f.set => mem.token = 0
    BY <1>2, <2>1 DEF FenceOK
  <2>3. \A i \in DOMAIN fences' :
          /\ fences'[i].gen <= mem.gen
          /\ fences'[i].set => fences'[i].token = fences'[i].gen
          /\ fences'[i].gen = mem.gen /\ ~fences'[i].set => mem.token = 0
    BY <1>6, <2>1 DEF FenceOK
  <2>4. mem.token = mem.gen =>
          \/ n = mem.gen
          \/ \E i \in DOMAIN fences' : fences'[i].set /\ fences'[i].gen = mem.gen
    BY <1>2, <1>3, <1>6, <2>1, <2>2 DEF FenceOK
  <2>5. mem.token = mem.gen /\ disk.fence = mem.gen => n = mem.gen
    BY <1>3, <2>1, <2>2 DEF FenceOK
  <2>6. Flow.pc = "activate" /\ IsCurrent("flow") => n = mem.gen
    BY <2>1, <2>5 DEF FenceOK
  <2>7. Flow.pc = "logout" /\ IsCurrent("flow") => \A i \in DOMAIN fences' : fences'[i].gen # mem.gen
    BY <1>6, <2>1 DEF FenceOK
  <2>8. mem' = mem /\ proc' = proc
    BY <1>1
  <2> QED
    BY <1>5, <2>1, <2>3, <2>4, <2>5, <2>6, <2>7, <2>8 DEF FenceOK, Idling, Flow, Installed, IsCurrent
<1>10. ASSUME ~hist'.overtaken PROVE Ours'
  <2>1. Ours /\ mem.gen \in Nat /\ FenceOK
    BY <1>1, <1>10 DEF Inv, Mem
  <2>2. Starting' /\ SigningIn' /\ Choosing' /\ Leaving' /\ Active' /\ Enabled'
    BY <1>1, <1>5, <2>1 DEF Ours, Starting, SigningIn, Choosing, Leaving, Active, Enabled, Alone, Idling,
         Flow, Installed, IsCurrent, Carries, Held, SessionOf, Got, Code, TokenOf, Of
  <2>3. ASSUME NEW r \in Run, ~Idling(r)' PROVE Running(r)'
    <3>1. Running(r) /\ proc[r].gen \in Nat /\ proc[r].gen > 0
      BY <1>1, <2>1, <2>3, Procs DEF Ours, Idling, Inv, TypeOK, State, FenceOK
    <3>2. PICK b : b = disk.bound
      OBVIOUS
    <3>3. Carries(r, b) => Carries(r, b)'
      BY <1>1 DEF Carries, Got, Code, TokenOf, Of
    <3>4. /\ f.set => f.token = f.gen
      BY <1>2, <2>1 DEF FenceOK
    <3>5. InFence(r)' => InFence(r) \/ IsCurrent(r)
      BY <1>1, <1>3, <1>5, <3>1, <3>4 DEF InFence, IsCurrent
    <3>6. proc[r].pc \in Going /\ ~IsCurrent(r) /\ InFence(r)' =>
             \E i \in DOMAIN fences' : /\ ~fences'[i].set /\ fences'[i].gen = mem.gen
                                       /\ fences'[i].token = disk'.fence
      <4> SUFFICES ASSUME proc[r].pc \in Going, ~IsCurrent(r), InFence(r)'
                   PROVE  \E i \in DOMAIN fences' : /\ ~fences'[i].set /\ fences'[i].gen = mem.gen
                                                    /\ fences'[i].token = disk'.fence
        OBVIOUS
      <4>1. InFence(r) /\ n = proc[r].gen /\ disk.fence = n /\ n > 0 /\ n # mem.gen
        BY <1>1, <1>5, <3>1, <3>5 DEF InFence, IsCurrent
      <4>2. PICK i \in DOMAIN fences : /\ ~fences[i].set /\ fences[i].gen = mem.gen
                                       /\ fences[i].token = disk.fence
        BY <3>1, <4>1 DEF Running
      <4>3. i # 1
        BY <1>2, <1>3, <4>1, <4>2
      <4> QED
        BY <1>5, <1>6, <4>1, <4>2, <4>3
    <3> QED
      BY <1>1, <1>5, <3>1, <3>2, <3>3, <3>5, <3>6 DEF Running, Idling, Flow, Installed, IsCurrent
  <2> QED
    BY <1>1, <2>1, <2>2, <2>3 DEF Ours, NothingStrays
<1> QED
  BY <1>7, <1>8, <1>9, <1>10 DEF Inv

\* A page begins, with nothing under way but what initialize takes up again.
LEMMA ReloadStep ==
    ASSUME Inv, Reload
    PROVE  Inv'
<1>1. /\ disk \in Disk /\ mem \in Mem /\ mem.gen \in Nat /\ mem.gen > 0 /\ disk.email \in Account
      /\ UNCHANGED <<sessions, disk, hist>> /\ fences' = <<>>
  BY DEF Inv, TypeOK, Reload, Mem, Disk, FenceOK
<1>2. PICK g \in Nat : g = mem.gen + 1 /\ g > 0
  BY <1>1
<1>3. /\ mem' \in Mem /\ mem'.access = None /\ mem'.refresh = None
      /\ mem'.gen = g /\ mem'.token = 0 /\ mem'.engine = 0
      /\ mem'.phase = "disconnected" /\ mem'.email = disk.email /\ mem'.snap = None /\ mem'.pending = 0
  BY <1>1, <1>2, BlankIs DEF Reload
<1>4. PICK c : c = [Request("refresh") EXCEPT !.tok = disk.stored]
  OBVIOUS
<1>5. c \in Calls /\ c.kind = "refresh" /\ c.tok = disk.stored
  <2>1. disk.stored \in Token \cup {None}
    BY <1>1 DEF Disk
  <2>2. c \in Calls
    BY <1>4, <2>1, RequestIs DEF Calls
  <2> QED
    BY <1>4, <2>1, <2>2, RequestIs DEF Calls
<1>6. PICK r : r = [Idle EXCEPT !.pc = "refresh", !.gen = g, !.account = disk.email, !.call = c]
  OBVIOUS
<1>7. /\ r \in State /\ r.pc = "refresh" /\ r.gen = g /\ r.account = disk.email /\ r.call = c
      /\ r.answer = None
  <2>1. r \in State
    BY <1>1, <1>5, <1>6, IdleIs DEF State, Stage
  <2> QED
    BY <1>6, <2>1, IdleIs DEF State
<1>8. /\ proc' \in [Proc -> State]
      /\ \A q \in Proc : q # "init" => proc'[q] = Idle
      /\ proc'["init"] = IF disk.enabled THEN r ELSE Idle
  BY <1>2, <1>4, <1>6, <1>7, IdleIs DEF Reload, Loading, Proc
<1>9. TypeOK' /\ Counts'
  <2>1. late' \subseteq Token
    <3> SUFFICES ASSUME NEW p \in Proc, Waiting(p), proc[p].call.kind = "refresh", proc[p].call.tok # None
                 PROVE  proc[p].call.tok \in Token
      BY DEF Inv, TypeOK, Reload
    <3>1. proc[p].call \in Calls
      BY DEF Inv, TypeOK, State, Waiting
    <3> QED
      BY <3>1 DEF Calls
  <2> QED
    BY <1>1, <1>3, <1>8, <2>1, SpendIs DEF Inv, TypeOK, Reload
<1>10. \A q \in Proc : q # "init" =>
          /\ proc'[q].pc = "idle" /\ proc'[q].gen = 0 /\ proc'[q].call = None /\ proc'[q].answer = None
  BY <1>8, IdleIs
<1>11. \/ ~disk.enabled /\ proc'["init"] = Idle
       \/ disk.enabled /\ proc'["init"] = r
  BY <1>8
<1>12. Stages' /\ CallsOK' /\ FenceOK'
  <2>1. Stages'
    BY <1>1, <1>7, <1>10, <1>11, Procs, IdleIs DEF Stages, Idling, Flow
  <2>2. CallsOK'
    BY <1>5, <1>7, <1>10, <1>11, IdleIs DEF CallsOK, Code, Asking
  <2>3. DOMAIN fences' = {}
    BY <1>1
  <2>4. /\ \A p \in Proc : proc'[p].gen <= g
        /\ \A p \in Run : proc'[p].pc = "idle"
        /\ proc'["flow"].pc = "idle" /\ proc'["init"].pc \in {"idle", "refresh"}
    <3>1. proc'["init"].gen <= g /\ proc'["init"].pc \in {"idle", "refresh"}
      <4>1. CASE proc'["init"] = Idle
        <5>1. proc'["init"].gen = 0 /\ proc'["init"].pc = "idle"
          BY <4>1, IdleIs
        <5> QED
          BY <1>2, <5>1
      <4>2. CASE proc'["init"] = r
        BY <1>2, <1>7, <4>2
      <4> QED
        BY <1>11, <4>1, <4>2
    <3>2. ASSUME NEW p \in Proc, p # "init" PROVE proc'[p].gen <= g
      BY <1>2, <1>10, <3>2
    <3>3. \A p \in Proc : proc'[p].gen <= g
      BY <3>1, <3>2
    <3> QED
      BY <1>10, <3>1, <3>3, Procs
  <2>5. FenceOK'
    BY <2>3, <2>4, <1>2, <1>3 DEF FenceOK, Idling, Flow, Installed, IsCurrent
  <2> QED
    BY <2>1, <2>2, <2>5
<1>13. ASSUME ~hist'.overtaken PROVE Ours'
  <2>1. Ours
    BY <1>1, <1>13 DEF Inv
  <2>2. Starting'
    <3> SUFFICES ASSUME ~Idling("init")' PROVE Starting'
      BY DEF Starting
    <3>1. disk.enabled /\ proc'["init"] = r /\ TokenOf(disk.stored, disk.bound) /\ disk.email = disk.bound
      BY <1>11, <2>1, IdleIs DEF Idling, Ours, Enabled
    <3>2. PICK b, t : b = disk.bound /\ t = disk.stored
      OBVIOUS
    <3>3. TokenOf(t, b)'
      BY <1>1, <3>1, <3>2 DEF TokenOf, Of
    <3>4. Carries("init", b)' /\ Held(b)'
      BY <1>1, <1>3, <1>5, <1>7, <3>1, <3>2, <3>3 DEF Carries, Held, Got, SessionOf, TokenOf, Of
    <3> QED
      BY <1>1, <1>2, <1>3, <1>7, <1>10, <3>1, <3>2, <3>4, Procs DEF Starting, Idling, Flow, Installed
  <2>3. SigningIn' /\ Choosing' /\ Leaving' /\ Active'
    BY <1>2, <1>3, <1>10, Procs
       DEF SigningIn, Choosing, Leaving, Active, Signing, Ends, Flow, Installed
  <2>4. Enabled'
    BY <1>1, <1>3, <2>1 DEF Ours, Enabled, TokenOf, Of
  <2>5. \A p \in Run : Idling(p)'
    BY <1>10, Procs DEF Idling
  <2> QED
    BY <1>1, <2>1, <2>2, <2>3, <2>4, <2>5 DEF Ours, NothingStrays
<1> QED
  BY <1>9, <1>12, <1>13 DEF Inv

----------------------------------------------------------------------------
(* What a flow that goes on must keep. *)

CallOK(r) ==
    /\ r.pc \in Asking => r.call \in Calls /\ r.call.kind = r.pc
    /\ r.pc = "apply" => /\ r.call \in Calls /\ r.call.kind = "sync" /\ r.call.s \in DOMAIN sessions
    /\ r.call # None => r.pc \in Asking \cup {"apply"}
    /\ r.pc = "verify" => r.call.account \in Account
    /\ r.answer # None /\ r.answer.code = "ok" =>
          /\ r.pc \in {"verify", "refresh"} => r.answer.tok \in Token
          /\ r.pc \in {"sync", "snapshot"} => r.call.s \in DOMAIN sessions

Silent(r) == r.call = None /\ r.answer = None /\ r.pc \notin Asking \cup {"apply"}

LEMMA SilentIs ==
    ASSUME NEW r, Silent(r)
    PROVE  CallOK(r)
BY DEF Silent, CallOK, Asking

LEMMA CallsMove ==
    ASSUME TypeOK, CallsOK, NEW p \in Proc, NEW q \in State, Go(p, q), sessions' = sessions, CallOK(q)
    PROVE  CallsOK'
<1>1. proc'[p] = q /\ \A r \in Proc : r # p => proc'[r] = proc[r]
  BY GoIs
<1>2. \A r \in Proc : CallOK(proc[r])
  BY DEF CallsOK, CallOK, Code
<1>3. \A r \in Proc : CallOK(proc'[r])
  BY <1>1, <1>2
<1> QED
  BY <1>3 DEF CallsOK, CallOK, Code

StageOK(p, q) ==
    /\ p = "init" => q.pc \in {"idle", "refresh", "enable", "fence"}
    /\ p = "flow" => q.pc \in {"idle", "code", "fail"} \cup Signing \cup Ends
    /\ p \in Run => q.pc \in {"idle", "fence"} \cup Going
    /\ p = "init" /\ q.pc # "idle" => q.account \in Account

LEMMA StagesMove ==
    ASSUME TypeOK, Stages, NEW p \in Proc, NEW q \in State, Go(p, q), StageOK(p, q)
    PROVE  Stages'
<1>1. proc'[p] = q /\ \A r \in Proc : r # p => proc'[r] = proc[r]
  BY GoIs
<1> QED
  BY <1>1, Procs DEF Stages, StageOK, Idling, Flow

\* The fence, when no generation begins or ends.
Fenced(p, q) ==
    /\ q.gen <= mem.gen
    /\ p \in Run /\ q.pc # "idle" => q.gen > 0
    /\ p = "init" /\ q.pc = "fence" /\ q.gen = mem.gen => mem.token = mem.gen
    /\ p = "flow" /\ q.gen = mem.gen =>
          /\ q.pc \in {"fence", "write", "activate", "again"} => mem.token = mem.gen
          /\ q.pc = "activate" => disk.fence = mem.gen
          /\ q.pc = "logout" => \A i \in DOMAIN fences : fences[i].gen # mem.gen

LEMMA FenceKept ==
    ASSUME TypeOK, FenceOK, NEW p \in Proc, NEW q \in State, Go(p, q), Fenced(p, q),
           fences' = fences, disk'.fence = disk.fence,
           mem'.gen = mem.gen, mem'.token = mem.token, mem'.pending <= mem.gen,
           mem'.engine = mem.gen => mem.token = mem.gen /\ disk.fence = mem.gen,
           mem'.phase = "choose-merge" /\ mem'.pending = mem.gen => mem.token = mem.gen
    PROVE  FenceOK'
<1>1. proc'[p] = q /\ \A r \in Proc : r # p => proc'[r] = proc[r]
  BY GoIs
<1>2. \A r \in Proc : proc'[r].gen <= mem.gen
  BY <1>1 DEF FenceOK, Fenced
<1>3. \A r \in Run : proc'[r].pc # "idle" => proc'[r].gen > 0
  BY <1>1, Procs DEF FenceOK, Fenced, Idling
<1>4. proc'["init"].pc = "fence" /\ proc'["init"].gen = mem.gen => mem.token = mem.gen
  BY <1>1, Procs DEF FenceOK, Fenced, IsCurrent
<1>5. proc'["flow"].gen = mem.gen =>
          /\ proc'["flow"].pc \in {"fence", "write", "activate", "again"} => mem.token = mem.gen
          /\ proc'["flow"].pc = "activate" => disk.fence = mem.gen
          /\ proc'["flow"].pc = "logout" => \A i \in DOMAIN fences : fences[i].gen # mem.gen
  BY <1>1, Procs DEF FenceOK, Fenced, IsCurrent, Flow
<1> QED
  BY <1>2, <1>3, <1>4, <1>5 DEF FenceOK, Installed, IsCurrent, Flow, Idling

\* A session begins, or is invalidated: the fence of it follows.
LEMMA FenceBegun ==
    ASSUME TypeOK, FenceOK, NEW p \in {"init", "flow"}, NEW q \in State, Go(p, q),
           q.gen = mem.gen + 1, q.pc \in {"fence", "again"}, SetFence, disk'.fence = disk.fence,
           mem'.gen = mem.gen + 1, mem'.token = mem.gen + 1, mem'.engine = 0, mem'.pending = mem.pending
    PROVE  FenceOK' /\ fences' \in Seq([set: BOOLEAN, gen: Nat, token: Nat])
<1>1. /\ p \in Proc /\ proc'[p] = q /\ \A r \in Proc : r # p => proc'[r] = proc[r]
  BY GoIs, Procs
<1>2. PICK g \in Nat : g = mem.gen /\ g > 0
  BY DEF TypeOK, Mem, FenceOK
<1>3. PICK h \in Nat : h = g + 1
  BY <1>2
<1>4. PICK f \in [set: BOOLEAN, gen: Nat, token: Nat] : f = [set |-> TRUE, gen |-> h, token |-> h]
  BY <1>3
<1>5. /\ fences' = Append(fences, f) /\ f.set /\ f.gen = h /\ f.token = h
      /\ fences \in Seq([set: BOOLEAN, gen: Nat, token: Nat])
  BY <1>2, <1>3, <1>4 DEF SetFence, TypeOK
<1>6. /\ fences' \in Seq([set: BOOLEAN, gen: Nat, token: Nat])
      /\ \A i \in DOMAIN fences' : fences'[i] = f \/ (i \in DOMAIN fences /\ fences'[i] = fences[i])
      /\ \E i \in DOMAIN fences' : fences'[i] = f
  <2>1. fences' \in Seq([set: BOOLEAN, gen: Nat, token: Nat]) /\ Len(fences') = Len(fences) + 1
    BY <1>4, <1>5
  <2>2. Len(fences) + 1 \in DOMAIN fences' /\ fences'[Len(fences) + 1] = f
    BY <1>5, <2>1
  <2>3. \A i \in DOMAIN fences' : fences'[i] = f \/ (i \in DOMAIN fences /\ fences'[i] = fences[i])
    BY <1>5, <2>1
  <2> QED
    BY <2>1, <2>2, <2>3
<1>7. \A r \in Proc : proc'[r].gen <= h /\ (r # p => proc'[r].gen # h)
  <2> SUFFICES ASSUME NEW r \in Proc PROVE proc'[r].gen <= h /\ (r # p => proc'[r].gen # h)
    OBVIOUS
  <2>1. PICK n \in Nat : n = proc[r].gen /\ n <= g
    BY <1>2 DEF FenceOK, TypeOK, State
  <2>2. n <= h /\ n # h
    BY <1>2, <1>3, <2>1
  <2>3. q.gen = h
    BY <1>2, <1>3
  <2>4. CASE r = p
    BY <1>1, <1>3, <2>3, <2>4
  <2> QED
    BY <1>1, <2>1, <2>2, <2>4
<1>8. \A r \in Run : proc'[r].pc # "idle" => proc'[r].gen > 0
  BY <1>1, Procs DEF FenceOK, Idling
<1>9. \A i \in DOMAIN fences' :
          /\ fences'[i].gen <= h
          /\ fences'[i].set => fences'[i].token = fences'[i].gen
          /\ ~(fences'[i].gen = h /\ ~fences'[i].set)
  <2> SUFFICES ASSUME NEW i \in DOMAIN fences
               PROVE  /\ fences[i].gen <= g
                      /\ fences[i].set => fences[i].token = fences[i].gen
                      /\ fences[i].gen \in Nat
    BY <1>2, <1>3, <1>5, <1>6
  <2>1. fences[i] \in [set: BOOLEAN, gen: Nat, token: Nat]
    BY <1>5, Element
  <2> QED
    BY <1>2, <2>1 DEF FenceOK
<1>10. proc'["flow"].gen = h => proc'["flow"].pc \in {"fence", "again"}
  BY <1>1, <1>7, Procs
<1>11. mem.pending <= g /\ mem.pending \in Nat
  BY <1>2 DEF TypeOK, Mem, FenceOK
<1>12. mem'.gen = h /\ mem'.token = h /\ mem'.engine = 0 /\ mem'.pending <= h
  BY <1>2, <1>3, <1>11
<1> QED
  BY <1>3, <1>5, <1>6, <1>7, <1>8, <1>9, <1>10, <1>12 DEF FenceOK, Installed, IsCurrent, Flow, Idling

LEMMA FenceDropped ==
    ASSUME TypeOK, FenceOK, NEW p \in Proc, p # "init", NEW q \in State, Go(p, q),
           q.gen = mem.gen + 1, q.pc \in {"fence", "leave"}, q.pc = "fence" => p # "flow",
           ClearFence, disk'.fence = disk.fence,
           mem'.gen = mem.gen + 1, mem'.token = 0, mem'.engine = 0, mem'.pending \in {0, mem.pending}
    PROVE  /\ FenceOK' /\ fences' \in Seq([set: BOOLEAN, gen: Nat, token: Nat])
           /\ \E i \in DOMAIN fences' : /\ ~fences'[i].set /\ fences'[i].gen = mem'.gen
                                        /\ fences'[i].token = mem.token
<1>1. /\ proc'[p] = q /\ \A r \in Proc : r # p => proc'[r] = proc[r]
  BY GoIs
<1>2. PICK g \in Nat : g = mem.gen /\ g > 0
  BY DEF TypeOK, Mem, FenceOK
<1>3. PICK h \in Nat : h = g + 1
  BY <1>2
<1>4. PICK t \in Nat : t = mem.token
  BY DEF TypeOK, Mem
<1>5. PICK f \in [set: BOOLEAN, gen: Nat, token: Nat] : f = [set |-> FALSE, gen |-> h, token |-> t]
  BY <1>3
<1>6. /\ fences' = Append(fences, f) /\ ~f.set /\ f.gen = h /\ f.token = t
      /\ fences \in Seq([set: BOOLEAN, gen: Nat, token: Nat])
  BY <1>2, <1>3, <1>4, <1>5 DEF ClearFence, TypeOK
<1>7. /\ fences' \in Seq([set: BOOLEAN, gen: Nat, token: Nat])
      /\ \A i \in DOMAIN fences' : fences'[i] = f \/ (i \in DOMAIN fences /\ fences'[i] = fences[i])
      /\ \E i \in DOMAIN fences' : fences'[i] = f
  <2>1. fences' \in Seq([set: BOOLEAN, gen: Nat, token: Nat]) /\ Len(fences') = Len(fences) + 1
    BY <1>5, <1>6
  <2>2. Len(fences) + 1 \in DOMAIN fences' /\ fences'[Len(fences) + 1] = f
    BY <1>6, <2>1
  <2>3. \A i \in DOMAIN fences' : fences'[i] = f \/ (i \in DOMAIN fences /\ fences'[i] = fences[i])
    BY <1>6, <2>1
  <2> QED
    BY <2>1, <2>2, <2>3
<1>8. \A r \in Proc : proc'[r].gen <= h /\ (r # p => proc'[r].gen # h)
  <2> SUFFICES ASSUME NEW r \in Proc PROVE proc'[r].gen <= h /\ (r # p => proc'[r].gen # h)
    OBVIOUS
  <2>1. PICK n \in Nat : n = proc[r].gen /\ n <= g
    BY <1>2 DEF FenceOK, TypeOK, State
  <2>2. n <= h /\ n # h
    BY <1>2, <1>3, <2>1
  <2>3. q.gen = h
    BY <1>2, <1>3
  <2>4. CASE r = p
    BY <1>1, <1>3, <2>3, <2>4
  <2> QED
    BY <1>1, <2>1, <2>2, <2>4
<1>9. \A r \in Run : proc'[r].pc # "idle" => proc'[r].gen > 0
  BY <1>1, <1>2, <1>3, Procs DEF FenceOK, Idling
<1>10. \A i \in DOMAIN fences' :
          /\ fences'[i].gen <= h
          /\ fences'[i].set => fences'[i].token = fences'[i].gen
  <2> SUFFICES ASSUME NEW i \in DOMAIN fences
               PROVE  /\ fences[i].gen <= h
                      /\ fences[i].set => fences[i].token = fences[i].gen
    BY <1>3, <1>6, <1>7
  <2>1. fences[i] \in [set: BOOLEAN, gen: Nat, token: Nat]
    BY <1>6, Element
  <2> QED
    BY <1>2, <1>3, <2>1 DEF FenceOK
<1>11. /\ proc'["flow"].gen = h => proc'["flow"].pc = "leave"
       /\ proc'["init"].gen # h
  BY <1>1, <1>8, Procs
<1>12. mem.pending <= g /\ mem.pending \in Nat
  BY <1>2 DEF TypeOK, Mem, FenceOK
<1>13. mem'.gen = h /\ mem'.token = 0 /\ mem'.engine = 0 /\ mem'.pending <= h /\ mem'.pending # h
  BY <1>2, <1>3, <1>12
<1>15. h > 0 /\ h # 0
  BY <1>2, <1>3
<1>14. FenceOK'
  BY <1>8, <1>9, <1>10, <1>11, <1>13, <1>15 DEF FenceOK, Installed, IsCurrent, Flow, Idling
<1> QED
  BY <1>4, <1>6, <1>7, <1>13, <1>14

\* Whose the tokens are, while nobody touches them.
LEMMA HeldKept ==
    ASSUME sessions' = sessions, mem'.access = mem.access, mem'.refresh = mem.refresh,
           disk'.stored = disk.stored, NEW a
    PROVE  Held(a)' <=> Held(a)
BY DEF Held, SessionOf, TokenOf, Of

LEMMA HeldNew ==
    ASSUME sessions' = sessions, mem \in Mem, NEW tok \in Token, NEW a, Of(tok.s, a),
           mem' = WithTokens(mem, tok), disk'.stored = tok
    PROVE  Held(a)'
<1>1. mem'.access = [s |-> tok.s, fresh |-> TRUE] /\ mem'.refresh \in {None, tok}
  BY WithTokensIs
<1>2. SessionOf(mem)' \in {0, tok.s}
  BY <1>1 DEF SessionOf
<1>3. PICK s : s = SessionOf(mem)'
  OBVIOUS
<1> QED
  BY <1>1, <1>2 DEF Held, TokenOf, Of

LEMMA CarriesKept ==
    ASSUME sessions' = sessions, NEW p \in Proc, proc'[p] = proc[p], NEW a, Carries(p, a)
    PROVE  Carries(p, a)'
BY DEF Carries, Got, Code, TokenOf, Of

\* A flow that ends, and one that goes on without a call.
LEMMA IdleMoves ==
    ASSUME TypeOK, NEW p \in Proc
    PROVE  CallOK(Idle) /\ StageOK(p, Idle) /\ Fenced(p, Idle)
<1>1. Idle.pc = "idle" /\ Idle.call = None /\ Idle.answer = None /\ Idle.gen = 0
  BY IdleIs
<1>2. Idle.gen <= mem.gen
  <2>1. PICK n \in Nat : n = mem.gen
    BY DEF TypeOK, Mem
  <2>2. 0 <= n
    BY <2>1
  <2> QED
    BY <1>1, <2>1, <2>2
<1>3. CallOK(Idle)
  BY <1>1, SilentIs DEF Silent, Asking
<1> QED
  BY <1>1, <1>2, <1>3 DEF StageOK, Fenced

Quiet == Stage \ (Asking \cup {"apply"})

LEMMA AfterMove ==
    ASSUME TypeOK, NEW p \in Proc, NEW r \in State, NEW pc \in Quiet, NEW gen \in Nat,
           Go(p, After(r, pc, gen))
    PROVE  \E q \in State :
              /\ Go(p, q) /\ Silent(q) /\ CallOK(q) /\ q.pc = pc /\ q.gen = gen
              /\ q.account = r.account /\ q.snap = r.snap /\ q.why = r.why
<1>1. PICK q : q = After(r, pc, gen)
  OBVIOUS
<1>2. pc \in Stage /\ pc \notin Asking \cup {"apply"}
  BY DEF Quiet
<1>3. /\ q \in State /\ q.pc = pc /\ q.call = None /\ q.answer = None
      /\ q.gen = gen /\ q.account = r.account /\ q.snap = r.snap /\ q.why = r.why
  BY <1>1, <1>2, AfterIs
<1>4. Silent(q)
  BY <1>2, <1>3 DEF Silent
<1>5. CallOK(q)
  BY <1>4, SilentIs
<1> QED
  BY <1>1, <1>3, <1>4, <1>5

LEMMA CallingMove ==
    ASSUME TypeOK, NEW p \in Proc, NEW r \in State, NEW pc \in Asking, NEW c \in Calls, c.kind = pc,
           pc = "verify" => c.account \in Account, Go(p, Calling(r, pc, c))
    PROVE  \E q \in State :
              /\ Go(p, q) /\ CallOK(q) /\ q.pc = pc /\ q.gen = r.gen /\ q.call = c /\ q.answer = None
              /\ q.account = r.account /\ q.snap = r.snap /\ q.why = r.why
<1>1. PICK q : q = Calling(r, pc, c)
  OBVIOUS
<1>2. pc \in Stage /\ pc # "apply"
  BY DEF Asking, Stage
<1>3. /\ q \in State /\ q.pc = pc /\ q.call = c /\ q.answer = None
      /\ q.gen = r.gen /\ q.account = r.account /\ q.snap = r.snap /\ q.why = r.why
  BY <1>1, <1>2, CallingIs
<1>4. CallOK(q)
  BY <1>2, <1>3 DEF CallOK
<1> QED
  BY <1>1, <1>3, <1>4

----------------------------------------------------------------------------
(* The start of a page goes on. *)

\* Nothing but the start of a page is under way.
LEMMA StartAlone ==
    ASSUME Inv, ~hist.overtaken, ~Idling("init")
    PROVE  /\ Ours /\ \A p \in Run : Idling(p)
           /\ Flow.pc \in {"idle", "code"} /\ mem.phase \in {"disconnected", "code-sent"} /\ ~Installed
           /\ proc["init"].account = disk.bound /\ mem.email = disk.bound
           /\ Carries("init", disk.bound) /\ Held(disk.bound)
BY DEF Inv, Ours, Starting

LEMMA InitAnswerStep ==
    ASSUME Inv, InitAnswer
    PROVE  Inv'
<1> DEFINE r == proc["init"]
<1>1. /\ TypeOK /\ disk \in Disk /\ mem \in Mem /\ r \in State /\ Counts' /\ "init" \in Proc
      /\ UNCHANGED <<sessions, fences, late, hist>>
      /\ r.pc = "refresh" /\ r.answer # None /\ Stages /\ CallsOK /\ FenceOK
  BY Procs DEF Inv, TypeOK, InitAnswer, Got, Counts
<1>2. PICK tok, a, x, n : tok = r.answer.tok /\ a = disk.bound /\ x = r.account /\ n = r.gen
  OBVIOUS
<1>3. /\ r.answer.code = "ok" => tok \in Token
      /\ x \in Account /\ n \in Nat /\ n <= mem.gen /\ mem.gen \in Nat /\ mem.pending <= mem.gen
  <2>1. x \in Account
    BY <1>1, <1>2 DEF Stages, Idling
  <2>2. n \in Nat /\ mem.gen \in Nat
    BY <1>1, <1>2 DEF State, Mem
  <2>3. r.answer.code = "ok" => tok \in Token
    BY <1>1, <1>2 DEF CallsOK, Code
  <2> QED
    BY <1>1, <1>2, <2>1, <2>2, <2>3 DEF FenceOK
<1>4. CASE r.answer.code = "ok" /\ IsCurrent("init")
  <2>1. mem' = WithTokens(mem, tok) /\ disk' = Keeping(disk, tok) /\ Go("init", After(r, "enable", n))
    BY <1>2, <1>4 DEF InitAnswer, Code
  <2>2. PICK q \in State : Go("init", q) /\ CallOK(q) /\ q.pc = "enable" /\ q.gen = n /\ q.account = x
    <3>1. "enable" \in Quiet
      BY DEF Quiet, Stage, Asking
    <3> QED
      BY <1>1, <1>2, <1>3, <2>1, <3>1, AfterMove
  <2>3. /\ mem' \in Mem /\ mem'.gen = mem.gen /\ mem'.token = mem.token /\ mem'.engine = mem.engine
        /\ mem'.phase = mem.phase /\ mem'.email = mem.email /\ mem'.pending = mem.pending
    BY <1>1, <1>3, <1>4, <2>1, TakesIs
  <2>4. /\ disk' \in Disk /\ disk'.fence = disk.fence /\ disk'.bound = disk.bound
        /\ disk'.email = disk.email /\ disk'.enabled = disk.enabled /\ disk'.stored = tok
    <3>1. disk' \in Disk /\ disk' = [disk EXCEPT !.stored = tok]
      BY <1>1, <1>3, <1>4, <2>1, KeepingIs DEF Keeping
    <3> QED
      BY <1>1, <1>3, <1>4, <2>1, <3>1, KeepingIs DEF Disk
  <2>5. proc' \in [Proc -> State] /\ proc'["init"] = q /\ \A p \in Proc : p # "init" => proc'[p] = proc[p]
    BY <1>1, <2>2, GoIs
  <2>6. TypeOK'
    BY <1>1, <2>3, <2>4, <2>5 DEF TypeOK
  <2>7. Stages' /\ CallsOK'
    BY <1>1, <1>3, <2>2, StagesMove, CallsMove, Procs DEF StageOK
  <2>8. Fenced("init", q)
    BY <1>3, <2>2, Procs DEF Fenced
  <2>9. FenceOK'
    BY <1>1, <1>3, <2>2, <2>3, <2>4, <2>8, FenceKept DEF FenceOK, Installed
  <2>10. ASSUME ~hist'.overtaken PROVE Ours'
    <3>1. /\ Ours /\ \A p \in Run : Idling(p)
          /\ Flow.pc \in {"idle", "code"} /\ mem.phase \in {"disconnected", "code-sent"} /\ ~Installed
          /\ x = a /\ mem.email = a /\ Carries("init", a)
      BY <1>1, <1>2, <2>10, StartAlone DEF Idling
    <3>2. Of(tok.s, a) /\ Held(a)'
      BY <1>1, <1>2, <1>3, <1>4, <2>1, <2>4, <3>1, HeldNew DEF Carries, Got, Code
    <3>3. (\A p \in Run : Idling(p)') /\ Flow' = Flow
      BY <2>5, <3>1, Procs DEF Idling, Flow
    <3>4. Carries("init", a)'
      BY <2>2, <2>5 DEF Carries, Got
    <3>5. Starting'
      BY <1>2, <2>2, <2>3, <2>4, <2>5, <3>1, <3>2, <3>3, <3>4 DEF Starting, Installed
    <3>6. SigningIn' /\ Choosing' /\ Leaving' /\ Active'
      BY <2>3, <3>1, <3>3 DEF SigningIn, Choosing, Leaving, Active, Signing, Ends, Installed
    <3>7. Enabled'
      BY <1>1, <1>2, <2>3, <2>4, <3>1, <3>2 DEF Ours, Enabled, TokenOf, Of
    <3> QED
      BY <1>1, <3>1, <3>3, <3>5, <3>6, <3>7 DEF Ours, NothingStrays
  <2> QED
    BY <1>1, <2>6, <2>7, <2>9, <2>10 DEF Inv
<1>5. CASE ~(r.answer.code = "ok" /\ IsCurrent("init"))
  <2>1. /\ Go("init", Idle)
        /\ \/ r.answer.code = "ok" /\ mem' = mem /\ disk' = CookieOnly(disk, tok)
           \/ disk' = disk /\ (mem' = mem \/ mem' = [mem EXCEPT !.phase = "expired", !.email = x])
    BY <1>2, <1>5 DEF InitAnswer, Stop, Code
  <2>2. /\ mem' \in Mem /\ mem'.gen = mem.gen /\ mem'.token = mem.token /\ mem'.engine = mem.engine
        /\ mem'.access = mem.access /\ mem'.refresh = mem.refresh /\ mem'.pending = mem.pending
        /\ mem'.phase \in {mem.phase, "expired"} /\ mem'.email \in {mem.email, x}
    <3>1. CASE mem' = mem
      BY <1>1, <3>1
    <3>2. CASE mem' = [mem EXCEPT !.phase = "expired", !.email = x]
      <4>1. mem' \in Mem
        BY <1>1, <1>3, <3>2 DEF Mem, Phases
      <4> QED
        BY <1>1, <3>2, <4>1 DEF Mem
    <3> QED
      BY <2>1, <3>1, <3>2
  <2>3. /\ disk' \in Disk /\ disk'.fence = disk.fence /\ disk'.bound = disk.bound
        /\ disk'.email = disk.email /\ disk'.enabled = disk.enabled
        /\ disk'.stored = disk.stored \/ (r.answer.code = "ok" /\ disk'.stored = tok)
    <3>1. CASE disk' = disk
      BY <1>1, <3>1
    <3>2. CASE r.answer.code = "ok" /\ disk' = CookieOnly(disk, tok)
      BY <1>1, <1>3, <3>2, KeepingIs
    <3> QED
      BY <2>1, <3>1, <3>2
  <2>4. /\ proc' \in [Proc -> State] /\ proc'["init"] = Idle
        /\ \A p \in Proc : p # "init" => proc'[p] = proc[p]
    BY <1>1, <2>1, GoIs, IdleIs
  <2>5. TypeOK'
    BY <1>1, <2>2, <2>3, <2>4 DEF TypeOK
  <2>6. Stages' /\ CallsOK'
    BY <1>1, <2>1, StagesMove, CallsMove, IdleIs, IdleMoves
  <2>7. Fenced("init", Idle)
    BY <1>1, IdleMoves
  <2>8. FenceOK'
    BY <1>1, <1>3, <2>1, <2>2, <2>3, <2>7, FenceKept, IdleIs DEF FenceOK, Installed
  <2>9. ASSUME ~hist'.overtaken PROVE Ours'
    <3>1. /\ Ours /\ \A p \in Run : Idling(p)
          /\ Flow.pc \in {"idle", "code"} /\ mem.phase \in {"disconnected", "code-sent"} /\ ~Installed
          /\ x = a /\ mem.email = a /\ Carries("init", a)
      BY <1>1, <1>2, <2>9, StartAlone DEF Idling
    <3>2. r.answer.code = "ok" => Of(tok.s, a)
      BY <1>1, <1>2, <3>1 DEF Carries, Got, Code
    <3>3. (\A p \in Run : Idling(p)') /\ Flow' = Flow /\ Idling("init")'
      BY <2>4, <3>1, IdleIs, Procs DEF Idling, Flow
    <3>4. mem'.phase \notin {"choose-merge", "connected"} /\ ~Installed' /\ mem'.email = a
      BY <2>2, <3>1 DEF Installed
    <3>5. Starting' /\ SigningIn' /\ Choosing' /\ Leaving' /\ Active'
      BY <3>1, <3>3, <3>4 DEF Starting, SigningIn, Choosing, Leaving, Active, Signing, Ends
    <3>6. Enabled'
      BY <1>1, <1>2, <1>3, <2>3, <3>1, <3>2, <3>4 DEF Ours, Enabled, TokenOf, Of
    <3> QED
      BY <1>1, <3>1, <3>3, <3>5, <3>6 DEF Ours, NothingStrays
  <2> QED
    BY <1>1, <2>5, <2>6, <2>8, <2>9 DEF Inv
<1> QED
  BY <1>4, <1>5

LEMMA InitBeginStep ==
    ASSUME Inv, InitBegin
    PROVE  Inv'
<1> DEFINE r == proc["init"]
<1>1. /\ TypeOK /\ disk \in Disk /\ mem \in Mem /\ r \in State /\ Counts' /\ "init" \in Proc
      /\ UNCHANGED <<sessions, disk, late, hist>> /\ SetFence
      /\ r.pc = "enable" /\ Stages /\ CallsOK /\ FenceOK
  BY Procs DEF Inv, TypeOK, InitBegin, Counts
<1>2. PICK a, x, g, m : a = disk.bound /\ x = r.account /\ g = mem.gen + 1 /\ m = Begun(mem)
  OBVIOUS
<1>3. x \in Account /\ g \in Nat
  BY <1>1, <1>2 DEF Stages, Idling, Mem
<1>4. /\ m \in Mem /\ m.gen = g /\ m.token = g /\ m.engine = 0
      /\ m.phase = mem.phase /\ m.snap = mem.snap
      /\ m.pending = mem.pending /\ m.access = mem.access /\ m.refresh = mem.refresh
  BY <1>1, <1>2, BegunIs
<1>5. mem' = [m EXCEPT !.email = x] /\ Go("init", After(r, "fence", g))
  BY <1>2 DEF InitBegin
<1>6. /\ mem' \in Mem /\ mem'.gen = g /\ mem'.token = g /\ mem'.engine = 0 /\ mem'.email = x
      /\ mem'.phase = mem.phase /\ mem'.pending = mem.pending /\ mem'.access = mem.access
      /\ mem'.refresh = mem.refresh
  <2>1. mem' \in Mem
    BY <1>3, <1>4, <1>5 DEF Mem
  <2> QED
    BY <1>4, <1>5, <2>1 DEF Mem
<1>7. PICK q \in State : Go("init", q) /\ CallOK(q) /\ q.pc = "fence" /\ q.gen = g /\ q.account = x
  <2>1. "fence" \in Quiet
    BY DEF Quiet, Stage, Asking
  <2> QED
    BY <1>1, <1>2, <1>3, <1>5, <2>1, AfterMove
<1>8. proc' \in [Proc -> State] /\ proc'["init"] = q /\ \A p \in Proc : p # "init" => proc'[p] = proc[p]
  BY <1>1, <1>7, GoIs
<1>9. Stages' /\ CallsOK'
  BY <1>1, <1>3, <1>7, StagesMove, CallsMove, Procs DEF StageOK
<1>10. FenceOK' /\ fences' \in Seq([set: BOOLEAN, gen: Nat, token: Nat])
  BY <1>1, <1>2, <1>6, <1>7, FenceBegun
<1>11. TypeOK'
  BY <1>1, <1>6, <1>8, <1>10 DEF TypeOK
<1>12. ASSUME ~hist'.overtaken PROVE Ours'
  <2>1. /\ Ours /\ \A p \in Run : Idling(p)
        /\ Flow.pc \in {"idle", "code"} /\ mem.phase \in {"disconnected", "code-sent"} /\ ~Installed
        /\ x = a /\ Held(a)
    BY <1>1, <1>2, <1>12, StartAlone DEF Idling
  <2>2. (\A p \in Run : Idling(p)') /\ Flow' = Flow
    BY <1>8, <2>1, Procs DEF Idling, Flow
  <2>3. Carries("init", a)'
    BY <1>7, <1>8 DEF Carries, Got
  <2>4. ~Installed'
    BY <1>1, <1>2, <1>6 DEF Installed, Mem
  <2>5. Held(a)'
    BY <1>1, <1>6, <2>1, HeldKept
  <2>6. Starting'
    BY <1>1, <1>2, <1>6, <1>7, <1>8, <2>1, <2>2, <2>3, <2>4, <2>5 DEF Starting
  <2>7. SigningIn' /\ Choosing' /\ Leaving' /\ Active'
    BY <1>6, <2>1, <2>2, <2>4 DEF SigningIn, Choosing, Leaving, Active, Signing, Ends
  <2>8. Enabled'
    BY <1>1, <1>2, <1>6, <2>1 DEF Ours, Enabled, TokenOf, Of
  <2> QED
    BY <1>1, <2>1, <2>2, <2>6, <2>7, <2>8 DEF Ours, NothingStrays
<1> QED
  BY <1>1, <1>9, <1>10, <1>11, <1>12 DEF Inv

\* persist(true) and the engine of the generation.
LEMMA ActivateIs ==
    ASSUME TypeOK, NEW p \in Proc, Activate(p), IsCurrent(p)
    PROVE  /\ mem' \in Mem /\ mem'.phase = "connected" /\ mem'.engine = mem.gen /\ mem'.snap = None
           /\ mem'.pending = 0 /\ mem'.gen = mem.gen /\ mem'.token = mem.token
           /\ mem'.email = mem.email /\ mem'.access = mem.access /\ mem'.refresh = mem.refresh
           /\ disk' \in Disk /\ disk'.stored = disk.stored /\ disk'.fence = disk.fence
           /\ disk'.bound = disk.bound /\ disk'.email = mem.email /\ disk'.enabled
           /\ Go(p, Idle)
<1>1. mem \in Mem /\ disk \in Disk
  BY DEF TypeOK
<1>2. PICK g \in Nat, x \in Account : g = mem.gen /\ x = mem.email
  BY <1>1 DEF Mem
<1>3. mem' = [mem EXCEPT !.phase = "connected", !.engine = g, !.snap = None, !.pending = 0, !.identity = x]
  BY <1>2 DEF Activate, IsCurrent
<1>4. mem' \in Mem
  BY <1>1, <1>2, <1>3 DEF Mem, Phases
<1>5. mem'.phase = "connected" /\ mem'.engine = g /\ mem'.snap = None /\ mem'.pending = 0
      /\ mem'.gen = mem.gen /\ mem'.token = mem.token
      /\ mem'.email = mem.email /\ mem'.access = mem.access /\ mem'.refresh = mem.refresh
  BY <1>1, <1>3, <1>4 DEF Mem
<1>6. disk' = Persisted(disk, TRUE) /\ Go(p, Idle)
  BY DEF Activate, Stop
<1> QED
  BY <1>1, <1>2, <1>4, <1>5, <1>6, PersistedIs

LEMMA InitActivateStep ==
    ASSUME Inv, InitActivate
    PROVE  Inv'
<1> DEFINE r == proc["init"]
<1>1. /\ TypeOK /\ disk \in Disk /\ mem \in Mem /\ r \in State /\ Counts' /\ "init" \in Proc
      /\ UNCHANGED <<sessions, fences, late, hist>> /\ r.pc = "fence" /\ Stages /\ CallsOK /\ FenceOK
  BY Procs DEF Inv, TypeOK, InitActivate, Counts
<1>2. Go("init", Idle)
  BY DEF InitActivate, Activate, Stop
<1>3. /\ proc' \in [Proc -> State] /\ proc'["init"] = Idle
      /\ \A p \in Proc : p # "init" => proc'[p] = proc[p]
  BY <1>1, <1>2, GoIs, IdleIs
<1>4. Stages' /\ CallsOK'
  BY <1>1, <1>2, StagesMove, CallsMove, IdleIs, IdleMoves
<1>5. Fenced("init", Idle)
  BY <1>1, IdleMoves
<1>6. mem.gen \in Nat /\ mem.gen > 0 /\ mem.pending <= mem.gen
  BY <1>1 DEF Mem, FenceOK
<1>7. CASE IsCurrent("init")
  <2>1. Activate("init")
    BY <1>7 DEF InitActivate
  <2>2. /\ mem' \in Mem /\ mem'.phase = "connected" /\ mem'.engine = mem.gen
        /\ mem'.pending = 0 /\ mem'.gen = mem.gen /\ mem'.token = mem.token
        /\ mem'.email = mem.email /\ mem'.access = mem.access /\ mem'.refresh = mem.refresh
        /\ disk' \in Disk /\ disk'.stored = disk.stored /\ disk'.fence = disk.fence
        /\ disk'.bound = disk.bound /\ disk'.email = mem.email /\ disk'.enabled
    BY <1>1, <1>7, <2>1, ActivateIs
  <2>3. mem.token = mem.gen /\ disk.fence = mem.gen
    <3>1. mem.token = mem.gen
      BY <1>1, <1>7 DEF FenceOK
    <3>2. \A i \in DOMAIN fences : fences[i].gen # mem.gen
      BY <1>7 DEF InitActivate, Passed, IsCurrent
    <3> QED
      BY <1>1, <3>1, <3>2 DEF FenceOK
  <2>4. FenceOK'
    <3>1. mem'.pending <= mem.gen /\ mem'.phase # "choose-merge"
      BY <1>6, <2>2
    <3> QED
      BY <1>1, <1>2, <1>5, <2>2, <2>3, <3>1, FenceKept, IdleIs
  <2>5. TypeOK'
    BY <1>1, <1>3, <2>2 DEF TypeOK
  <2>6. ASSUME ~hist'.overtaken PROVE Ours'
    <3>1. PICK a : a = disk.bound
      OBVIOUS
    <3>2. /\ Ours /\ \A p \in Run : Idling(p)
          /\ Flow.pc \in {"idle", "code"} /\ mem.email = a /\ Held(a)
      BY <1>1, <2>6, <3>1, StartAlone DEF Idling
    <3>3. (\A p \in Run : Idling(p)') /\ Flow' = Flow /\ Idling("init")'
      BY <1>3, <3>2, IdleIs, Procs DEF Idling, Flow
    <3>4. Held(a)'
      BY <1>1, <2>2, <3>2, HeldKept
    <3>5. Starting' /\ SigningIn' /\ Choosing' /\ Leaving'
      BY <2>2, <3>2, <3>3 DEF Starting, SigningIn, Choosing, Leaving, Signing, Ends
    <3>6. Active' /\ Enabled'
      BY <2>2, <3>1, <3>2, <3>3, <3>4 DEF Active, Enabled, Held, TokenOf, Of
    <3> QED
      BY <1>1, <3>2, <3>3, <3>5, <3>6 DEF Ours, NothingStrays
  <2> QED
    BY <1>1, <1>4, <2>4, <2>5, <2>6 DEF Inv
<1>8. CASE ~IsCurrent("init")
  <2>1. mem' = mem /\ disk' = disk
    BY <1>8 DEF InitActivate
  <2>2. FenceOK'
    BY <1>1, <1>2, <1>5, <2>1, FenceKept, IdleIs DEF FenceOK, Installed
  <2>3. TypeOK'
    BY <1>1, <1>3, <2>1 DEF TypeOK
  <2>4. ASSUME ~hist'.overtaken PROVE Ours'
    <3>1. /\ Ours /\ \A p \in Run : Idling(p)
          /\ Flow.pc \in {"idle", "code"} /\ mem.phase \in {"disconnected", "code-sent"} /\ ~Installed
      BY <1>1, <2>4, StartAlone DEF Idling
    <3>2. (\A p \in Run : Idling(p)') /\ Flow' = Flow /\ Idling("init")'
      BY <1>3, <3>1, IdleIs, Procs DEF Idling, Flow
    <3>3. Starting' /\ SigningIn' /\ Choosing' /\ Leaving' /\ Active'
      BY <2>1, <3>1, <3>2 DEF Starting, SigningIn, Choosing, Leaving, Active, Signing, Ends, Installed
    <3>4. Enabled'
      BY <1>1, <2>1, <3>1 DEF Ours, Enabled, TokenOf, Of
    <3> QED
      BY <1>1, <3>1, <3>2, <3>3, <3>4 DEF Ours, NothingStrays
  <2> QED
    BY <1>1, <1>4, <2>2, <2>3, <2>4 DEF Inv
<1> QED
  BY <1>7, <1>8

----------------------------------------------------------------------------
(* Runs of the engine. *)

\* Nothing but the run, and an end of the session, is under way.
LEMMA RunAlone ==
    ASSUME Inv, ~hist.overtaken, NEW p \in Run, ~Idling(p)
    PROVE  /\ Ours /\ Running(p) /\ Idling("init") /\ Flow.pc \in {"idle", "code"} \cup Ends
           /\ mem.phase # "choose-merge"
           /\ Flow.pc \in Ends => ~Installed /\ Flow.why \notin {"fail", "cancel"}
<1>1. Ours /\ Running(p)
  BY DEF Inv, Ours
<1> QED
  BY <1>1 DEF Running, Ours, Choosing, Leaving, Alone

\* A run goes on: what it asks with and keeps is the account's.
LEMMA RunMoves ==
    ASSUME Inv, ~hist.overtaken, NEW p \in Run, proc[p].pc \in Going,
           NEW q \in State, Go(p, q), q.pc \in Going \cup {"idle"},
           UNCHANGED <<sessions, fences>>, NothingStrays',
           mem'.phase = mem.phase, mem'.email = mem.email, mem'.gen = mem.gen, mem'.engine = mem.engine,
           disk'.fence = disk.fence, disk'.bound = disk.bound,
           NEW a, a = disk.bound,
           Installed => Held(a)',
           disk'.enabled => disk'.email = a /\ TokenOf(disk.stored, a)' /\ (mem.phase # "disconnected" => mem.email = a),
           q.pc # "idle" =>
              /\ q.gen = proc[p].gen /\ disk'.enabled = disk.enabled
              /\ disk.enabled \/ IsCurrent(p) \/ InFence(p) => Carries(p, a)'
    PROVE  Ours'
<1>1. /\ TypeOK /\ ~Idling(p) /\ p \in Proc /\ p # "init" /\ p # "flow"
  BY Procs DEF Inv, Idling, Going
<1>2. /\ proc'[p] = q /\ \A r \in Proc : r # p => proc'[r] = proc[r]
  BY <1>1, GoIs
<1>3. /\ Ours /\ Running(p) /\ Idling("init") /\ Flow.pc \in {"idle", "code"} \cup Ends
      /\ mem.phase # "choose-merge"
      /\ Flow.pc \in Ends => ~Installed /\ Flow.why \notin {"fail", "cancel"}
  BY <1>1, RunAlone
<1>4. /\ Idling("init")' /\ Flow' = Flow /\ Installed' = Installed /\ \A r \in Run : r # p => Idling(r)'
  BY <1>1, <1>2, <1>3, Procs DEF Running, Idling, Flow, Installed
<1>5. Starting' /\ SigningIn' /\ Choosing'
  BY <1>3, <1>4 DEF Starting, SigningIn, Choosing, Signing, Ends
<1>6. Leaving'
  <2>1. Flow.pc # "fail"
    BY <1>3 DEF Ends
  <2>2. \A r \in Run : Flow.pc \in Ends /\ proc'[r].pc \in Going => IsCurrent("flow")
    BY <1>1, <1>2, <1>3, Procs DEF Ours, Leaving
  <2>3. IsCurrent("flow")' = IsCurrent("flow")
    BY <1>1, <1>2, Procs DEF IsCurrent
  <2> QED
    BY <1>3, <1>4, <2>1, <2>2, <2>3 DEF Leaving
<1>7. Active'
  BY <1>3, <1>4 DEF Ours, Active
<1>8. Enabled'
  BY DEF Enabled, TokenOf, Of
<1>9. ASSUME NEW r \in Run, ~Idling(r)' PROVE Running(r)'
  <2>1. r = p /\ q.pc \in Going
    BY <1>2, <1>4, <1>9 DEF Idling
  <2>2. /\ IsCurrent(p)' = IsCurrent(p) /\ InFence(p)' = InFence(p)
    BY <1>2, <2>1 DEF IsCurrent, InFence, Going
  <2>3. /\ mem.phase = "disconnected" => ~disk'.enabled
        /\ Installed <=> IsCurrent(p)
        /\ ~IsCurrent(p) =>
              /\ Flow.pc \in Ends \/ mem.phase # "connected"
              /\ InFence(p) => \E i \in DOMAIN fences : /\ ~fences[i].set /\ fences[i].gen = mem.gen
                                                        /\ fences[i].token = disk.fence
        /\ disk.enabled \/ IsCurrent(p) \/ InFence(p) => Carries(p, a)'
    BY <1>3, <2>1 DEF Running, Going
  <2>4. disk'.enabled \/ IsCurrent(p)' \/ InFence(p)' => Carries(p, a)'
    BY <2>1, <2>2, <2>3 DEF Going
  <2> QED
    BY <1>2, <1>3, <1>4, <2>1, <2>2, <2>3, <2>4 DEF Running
<1> QED
  BY <1>5, <1>6, <1>7, <1>8, <1>9 DEF Ours

\* The other parts of the invariant, when a run goes on within its generation.
LEMMA RunFenced ==
    ASSUME Inv, NEW p \in Run, ~Idling(p), NEW q, q.gen = proc[p].gen
    PROVE  Fenced(p, q)
<1>1. p \in Proc /\ p # "init" /\ p # "flow"
  BY Procs
<1>2. q.gen <= mem.gen /\ q.gen > 0
  BY <1>1 DEF Inv, FenceOK
<1> QED
  BY <1>1, <1>2 DEF Fenced

LEMMA RunKeeps ==
    ASSUME Inv, NEW p \in Run, NEW q \in State, Go(p, q), CallOK(q), Fenced(p, q),
           q.pc \in Going \cup {"idle"},
           UNCHANGED <<sessions, fences, late, used>>,
           hist' \in [strays: SUBSET BOOLEAN, overtaken: BOOLEAN],
           mem' \in Mem, disk' \in Disk,
           mem'.phase \in {mem.phase, "expired"}, mem'.pending = mem.pending, mem'.gen = mem.gen,
           mem'.token = mem.token, mem'.engine = mem.engine, disk'.fence = disk.fence
    PROVE  TypeOK' /\ Counts' /\ Stages' /\ CallsOK' /\ FenceOK'
<1>1. TypeOK /\ Stages /\ CallsOK /\ FenceOK /\ Counts' /\ p \in Proc
  BY Procs DEF Inv, Counts
<1>2. proc' \in [Proc -> State]
  BY <1>1, GoIs
<1>3. TypeOK'
  BY <1>1, <1>2 DEF TypeOK
<1>4. Stages' /\ CallsOK'
  BY <1>1, StagesMove, CallsMove, Procs DEF StageOK
<1>5. mem.pending <= mem.gen
  BY <1>1 DEF FenceOK
<1>6. /\ mem'.engine = mem.gen => mem.token = mem.gen /\ disk.fence = mem.gen
      /\ mem'.phase = "choose-merge" /\ mem'.pending = mem.gen => mem.token = mem.gen
  BY <1>1 DEF FenceOK, Installed
<1>7. FenceOK'
  BY <1>1, <1>5, <1>6, FenceKept
<1> QED
  BY <1>1, <1>3, <1>4, <1>7

\* What a run asks with.
LEMMA AskRefreshMove ==
    ASSUME TypeOK, NEW p \in Proc, NEW r \in State, Go(p, AskRefresh(r))
    PROVE  \E q \in State : /\ Go(p, q) /\ CallOK(q) /\ q.pc = "refresh" /\ q.gen = r.gen
                            /\ q.call.tok = HeldToken /\ q.answer = None
<1>1. PICK q : q = AskRefresh(r)
  OBVIOUS
<1>2. /\ q \in State /\ q.pc = "refresh" /\ q.answer = None
      /\ q.call \in Calls /\ q.call.kind = "refresh" /\ q.call.tok = HeldToken /\ q.gen = r.gen
  BY <1>1, AskRefreshIs
<1>3. CallOK(q)
  BY <1>2 DEF CallOK, Asking
<1> QED
  BY <1>1, <1>2, <1>3

LEMMA AskSyncMove ==
    ASSUME TypeOK, NEW p \in Proc, NEW r \in State, NEW m \in Mem, Go(p, AskSync(r, m))
    PROVE  \E q \in State : /\ Go(p, q) /\ CallOK(q) /\ q.pc = "sync" /\ q.gen = r.gen
                            /\ q.call.s = SessionOf(m) /\ q.answer = None
<1>1. PICK q : q = AskSync(r, m)
  OBVIOUS
<1>2. /\ q \in State /\ q.pc = "sync" /\ q.answer = None
      /\ q.call \in Calls /\ q.call.kind = "sync" /\ q.call.s = SessionOf(m) /\ q.gen = r.gen
  BY <1>1, AskSyncIs
<1>3. CallOK(q)
  BY <1>2 DEF CallOK, Asking
<1> QED
  BY <1>1, <1>2, <1>3

LEMMA HeldTokenIs ==
    ASSUME NEW a, Held(a)
    PROVE  TokenOf(HeldToken, a) /\ Of(SessionOf(mem), a)
BY DEF Held, HeldToken

LEMMA StartRunStep ==
    ASSUME Inv, NEW p \in Run, StartRun(p)
    PROVE  Inv'
<1>1. /\ TypeOK /\ disk \in Disk /\ mem \in Mem /\ p \in Proc /\ p # "init" /\ p # "flow"
      /\ FenceOK /\ UNCHANGED <<sessions, disk, mem, fences, late, hist, used>>
      /\ Idling(p) /\ mem.phase = "connected" /\ Installed
      /\ \A r \in Run : Idling(r) \/ ~IsCurrent(r)
  BY Procs DEF Inv, TypeOK, StartRun, Idling, Installed, IsCurrent
<1>2. PICK g, d \in Nat : g = mem.gen /\ d = disk.device /\ g > 0
  BY <1>1 DEF Mem, Disk, FenceOK
<1>3. PICK r : r = [Idle EXCEPT !.gen = g, !.device = d]
  OBVIOUS
<1>4. r \in State /\ r.gen = g
  <2>1. r \in State
    BY <1>2, <1>3, IdleIs DEF State
  <2> QED
    BY <1>2, <1>3, <2>1, IdleIs DEF State
<1>5. Go(p, AskSync(r, mem)) \/ Go(p, AskRefresh(r))
  BY <1>2, <1>3 DEF StartRun
<1>6. PICK q \in State :
        /\ Go(p, q) /\ CallOK(q) /\ q.gen = g /\ q.answer = None
        /\ \/ q.pc = "sync" /\ q.call.s = SessionOf(mem)
           \/ q.pc = "refresh" /\ q.call.tok = HeldToken
  BY <1>1, <1>4, <1>5, AskSyncMove, AskRefreshMove
<1>7. proc' \in [Proc -> State] /\ proc'[p] = q /\ \A r1 \in Proc : r1 # p => proc'[r1] = proc[r1]
  BY <1>1, <1>6, GoIs
<1>8. TypeOK' /\ Counts' /\ Stages' /\ CallsOK' /\ FenceOK'
  <2>1. Fenced(p, q)
    BY <1>1, <1>2, <1>6 DEF Fenced
  <2> QED
    BY <1>1, <1>6, <2>1, RunKeeps DEF Going, TypeOK
<1>9. ASSUME ~hist'.overtaken PROVE Ours'
  <2>1. PICK a : a = disk.bound
    OBVIOUS
  <2>2. /\ Ours /\ Held(a) /\ mem.email = a /\ Idling("init")
        /\ Flow.pc \in {"idle", "code", "verify", "bind", "snapshot", "fail"}
    BY <1>1, <1>9, <2>1 DEF Inv, Ours, Active
  <2>3. Flow.pc \in {"idle", "code"}
    BY <1>1, <2>2 DEF Ours, SigningIn, Leaving, Signing
  <2>4. \A r1 \in Run : Idling(r1)
    BY <1>1, <2>2 DEF Ours, Running
  <2>5. /\ Idling("init")' /\ Flow' = Flow /\ Installed' /\ \A r1 \in Run : r1 # p => Idling(r1)'
    BY <1>1, <1>7, <2>2, <2>4, Procs DEF Idling, Flow, Installed
  <2>6. Starting' /\ SigningIn' /\ Choosing' /\ Leaving'
    BY <1>1, <2>3, <2>5 DEF Starting, SigningIn, Choosing, Leaving, Signing, Ends
  <2>7. Held(a)' /\ Active' /\ Enabled'
    BY <1>1, <2>1, <2>2, <2>5, HeldKept DEF Ours, Active, Enabled, TokenOf, Of
  <2>8. Carries(p, a)'
    <3>1. TokenOf(HeldToken, a) /\ Of(SessionOf(mem), a)
      BY <2>2, HeldTokenIs
    <3>2. PICK t, s : t = HeldToken /\ s = SessionOf(mem)
      OBVIOUS
    <3>3. TokenOf(t, a)' /\ Of(s, a)'
      BY <1>1, <3>1, <3>2 DEF TokenOf, Of
    <3> QED
      BY <1>6, <1>7, <3>2, <3>3 DEF Carries, Got
  <2>9. ASSUME NEW r1 \in Run, ~Idling(r1)' PROVE Running(r1)'
    <3>1. r1 = p
      BY <2>5, <2>9
    <3>2. IsCurrent(p)' /\ proc'[p].pc \in Going
      BY <1>1, <1>2, <1>6, <1>7 DEF IsCurrent, Going
    <3> QED
      BY <1>1, <2>1, <2>3, <2>5, <2>8, <3>1, <3>2 DEF Running
  <2> QED
    BY <1>1, <2>2, <2>6, <2>7, <2>9 DEF Ours, NothingStrays
<1> QED
  BY <1>8, <1>9 DEF Inv

\* A refusal: another token, or the end of the session.
LEMMA UnauthorisedStep ==
    ASSUME Inv, NEW p \in Run, proc[p].pc \in {"refresh", "sync"}, IsCurrent(p), Unauthorised(p),
           UNCHANGED <<sessions, disk, mem, fences, late, hist, used>>
    PROVE  Inv'
<1>1. /\ TypeOK /\ disk \in Disk /\ mem \in Mem /\ p \in Proc /\ p # "init" /\ p # "flow"
      /\ proc[p] \in State /\ ~Idling(p) /\ FenceOK
  BY Procs DEF Inv, TypeOK, Idling
<1>2. PICK g \in Nat : g = proc[p].gen
  BY <1>1 DEF State
<1>3. PICK r : r = [proc[p] EXCEPT !.retried = TRUE]
  OBVIOUS
<1>4. r \in State /\ r.gen = g
  <2>1. r \in State
    BY <1>1, <1>3 DEF State
  <2> QED
    BY <1>1, <1>2, <1>3, <2>1 DEF State
<1>5. Go(p, After(proc[p], "expire", g)) \/ Go(p, AskRefresh(r))
  BY <1>2, <1>3 DEF Unauthorised
<1>6. PICK q \in State :
        /\ Go(p, q) /\ CallOK(q) /\ q.gen = g
        /\ \/ q.pc = "expire"
           \/ q.pc = "refresh" /\ q.call.tok = HeldToken /\ q.answer = None
  <2>1. "expire" \in Quiet
    BY DEF Quiet, Stage, Asking
  <2> QED
    BY <1>1, <1>2, <1>4, <1>5, <2>1, AskRefreshMove, AfterMove
<1>7. proc'[p] = q
  BY <1>1, <1>6, GoIs
<1>8. TypeOK' /\ Counts' /\ Stages' /\ CallsOK' /\ FenceOK'
  <2>1. Fenced(p, q)
    BY <1>1, <1>2, <1>6, RunFenced
  <2> QED
    BY <1>1, <1>6, <2>1, RunKeeps DEF Going, TypeOK
<1>9. ASSUME ~hist'.overtaken PROVE Ours'
  <2>1. PICK a : a = disk.bound
    OBVIOUS
  <2>2. Ours /\ Running(p) /\ ~hist.overtaken
    BY <1>1, <1>9, RunAlone
  <2>3. Installed
    BY <2>2 DEF Running, Going
  <2>4. Held(a) /\ Held(a)'
    BY <2>1, <2>2, <2>3, HeldKept DEF Ours, Active
  <2>5. PICK t : t = HeldToken
    OBVIOUS
  <2>6. TokenOf(t, a)'
    BY <2>4, <2>5, HeldTokenIs DEF TokenOf, Of
  <2>7. Carries(p, a)'
    BY <1>6, <1>7, <2>5, <2>6 DEF Carries, Got
  <2>8. disk'.enabled => disk'.email = a /\ TokenOf(disk.stored, a)' /\ (mem.phase # "disconnected" => mem.email = a)
    BY <2>1, <2>2 DEF Ours, Enabled, TokenOf, Of
  <2> QED
    BY <1>2, <1>6, <2>1, <2>2, <2>4, <2>7, <2>8, RunMoves DEF Ours, NothingStrays, Going
<1> QED
  BY <1>8, <1>9 DEF Inv

\* A run ends without anything.
LEMMA RunStops ==
    ASSUME Inv, NEW p \in Run, proc[p].pc \in Going, Stop(p), NEW tok,
           proc[p].pc = "refresh" /\ Got(p, "refresh") /\ Code(p) = "ok" => tok = proc[p].answer.tok,
           \/ disk' = disk
           \/ Got(p, "refresh") /\ Code(p) = "ok" /\ ~IsCurrent(p) /\ disk' = CookieOnly(disk, tok),
           UNCHANGED <<sessions, mem, fences, late, hist, used>>
    PROVE  Inv'
<1>1. /\ TypeOK /\ disk \in Disk /\ mem \in Mem /\ p \in Proc /\ ~Idling(p) /\ Go(p, Idle) /\ Idle \in State
  BY Procs, IdleIs DEF Inv, TypeOK, Idling, Going, Stop
<1>2. Got(p, "refresh") /\ Code(p) = "ok" => tok \in Token
  BY <1>1 DEF Inv, CallsOK, Got
<1>3. /\ disk' \in Disk /\ disk'.fence = disk.fence /\ disk'.bound = disk.bound
      /\ disk'.email = disk.email /\ disk'.enabled = disk.enabled
      /\ \/ disk'.stored = disk.stored
         \/ disk'.stored = tok /\ Got(p, "refresh") /\ Code(p) = "ok" /\ ~IsCurrent(p)
  <2>1. CASE disk' = disk
    BY <1>1, <2>1
  <2>2. CASE Got(p, "refresh") /\ Code(p) = "ok" /\ ~IsCurrent(p) /\ disk' = CookieOnly(disk, tok)
    BY <1>1, <1>2, <2>2, KeepingIs
  <2> QED
    BY <2>1, <2>2
<1>4. TypeOK' /\ Counts' /\ Stages' /\ CallsOK' /\ FenceOK'
  <2>1. CallOK(Idle) /\ Fenced(p, Idle) /\ Idle.pc = "idle"
    BY <1>1, IdleIs, IdleMoves
  <2> QED
    BY <1>1, <1>3, <2>1, RunKeeps DEF TypeOK
<1>5. ASSUME ~hist'.overtaken PROVE Ours'
  <2>1. PICK a : a = disk.bound
    OBVIOUS
  <2>2. Ours /\ Running(p) /\ ~hist.overtaken
    BY <1>1, <1>5, RunAlone
  <2>3. Installed => Held(a)'
    <3>1. Installed => IsCurrent(p) /\ Held(a)
      BY <2>1, <2>2 DEF Running, Ours, Active
    <3> QED
      BY <1>3, <3>1, HeldKept
  <2>4. disk.enabled /\ Got(p, "refresh") /\ Code(p) = "ok" => Of(tok.s, a)
    BY <2>1, <2>2 DEF Running, Carries, Got
  <2>5. disk'.enabled => disk'.email = a /\ TokenOf(disk.stored, a)' /\ (mem.phase # "disconnected" => mem.email = a)
    BY <1>3, <2>1, <2>2, <2>4 DEF Ours, Enabled, TokenOf, Of
  <2> QED
    BY <1>1, <1>3, <2>1, <2>2, <2>3, <2>5, RunMoves, IdleIs DEF Ours, NothingStrays
<1> QED
  BY <1>4, <1>5 DEF Inv

LEMMA RunTakesStep ==
    ASSUME Inv, NEW p \in Run, Got(p, "refresh"), Code(p) = "ok", IsCurrent(p), NEW tok,
           tok = proc[p].answer.tok, mem' = WithTokens(mem, tok), disk' = Keeping(disk, tok),
           Go(p, AskSync(proc[p], mem')), UNCHANGED <<sessions, fences, late, hist, used>>
    PROVE  Inv'
<1>1. /\ TypeOK /\ disk \in Disk /\ mem \in Mem /\ p \in Proc /\ ~Idling(p) /\ proc[p] \in State
      /\ proc[p].pc = "refresh"
  BY Procs DEF Inv, TypeOK, Idling, Got
<1>2. tok \in Token
  BY <1>1 DEF Inv, CallsOK, Got
<1>3. PICK m : m = mem'
  OBVIOUS
<1>4. /\ m \in Mem /\ m.access = [s |-> tok.s, fresh |-> TRUE]
      /\ m.gen = mem.gen /\ m.token = mem.token /\ m.engine = mem.engine
      /\ m.phase = mem.phase /\ m.email = mem.email /\ m.pending = mem.pending
  BY <1>1, <1>2, <1>3, WithTokensIs, TakesIs
<1>5. /\ disk' \in Disk /\ disk'.fence = disk.fence /\ disk'.bound = disk.bound
      /\ disk'.email = disk.email /\ disk'.enabled = disk.enabled /\ disk'.stored = tok
  <2>1. disk' \in Disk /\ disk' = [disk EXCEPT !.stored = tok]
    BY <1>1, <1>2, KeepingIs DEF Keeping
  <2> QED
    BY <1>1, <1>2, <2>1, KeepingIs DEF Disk
<1>6. PICK q \in State : /\ Go(p, q) /\ CallOK(q) /\ q.pc = "sync" /\ q.gen = proc[p].gen
                         /\ q.call.s = SessionOf(m) /\ q.answer = None
  <2>1. Go(p, AskSync(proc[p], m))
    BY <1>3
  <2> QED
    BY <1>1, <1>4, <2>1, AskSyncMove
<1>7. proc'[p] = q
  BY <1>1, <1>6, GoIs
<1>8. TypeOK' /\ Counts' /\ Stages' /\ CallsOK' /\ FenceOK'
  <2>1. Fenced(p, q)
    BY <1>1, <1>6, RunFenced
  <2> QED
    BY <1>1, <1>3, <1>4, <1>5, <1>6, <2>1, RunKeeps DEF Going, TypeOK
<1>9. ASSUME ~hist'.overtaken PROVE Ours'
  <2>1. PICK a : a = disk.bound
    OBVIOUS
  <2>2. Ours /\ Running(p) /\ ~hist.overtaken
    BY <1>1, <1>9, RunAlone
  <2>3. Of(tok.s, a)
    BY <1>1, <2>1, <2>2 DEF Running, Carries
  <2>4. Held(a)'
    BY <1>1, <1>2, <1>5, <2>3, HeldNew
  <2>5. Carries(p, a)'
    <3>1. SessionOf(m) = tok.s \/ SessionOf(m) = 0
      BY <1>4 DEF SessionOf
    <3>2. PICK s : s = SessionOf(m)
      OBVIOUS
    <3>3. Of(s, a)'
      BY <2>3, <3>1, <3>2 DEF Of
    <3> QED
      BY <1>6, <1>7, <3>2, <3>3 DEF Carries, Got
  <2>6. disk'.enabled => disk'.email = a /\ TokenOf(disk.stored, a)' /\ (mem.phase # "disconnected" => mem.email = a)
    BY <1>5, <2>1, <2>2, <2>3 DEF Ours, Enabled, TokenOf, Of
  <2>7. NothingStrays' /\ proc[p].pc \in Going /\ q.pc \in Going /\ q.pc # "idle"
    BY <1>1, <1>6, <2>2 DEF Ours, NothingStrays, Going
  <2> QED
    BY <1>3, <1>4, <1>5, <1>6, <2>1, <2>2, <2>4, <2>5, <2>6, <2>7, RunMoves
<1> QED
  BY <1>8, <1>9 DEF Inv

LEMMA RunRefreshedStep ==
    ASSUME Inv, NEW p \in Run, RunRefreshed(p)
    PROVE  Inv'
<1>1. PICK tok : tok = proc[p].answer.tok
  OBVIOUS
<1>2. Got(p, "refresh") /\ proc[p].pc \in Going /\ UNCHANGED <<sessions, fences, late, hist, used>>
  BY DEF RunRefreshed, Got, Going
<1>3. CASE Code(p) = "ok" /\ IsCurrent(p)
  <2>1. mem' = WithTokens(mem, tok) /\ disk' = Keeping(disk, tok) /\ Go(p, AskSync(proc[p], mem'))
    BY <1>1, <1>3 DEF RunRefreshed, TakesTokens
  <2> QED
    BY <1>1, <1>2, <1>3, <2>1, RunTakesStep
<1>4. CASE Code(p) = "ok" /\ ~IsCurrent(p)
  <2>1. disk' = CookieOnly(disk, tok) /\ Stop(p) /\ mem' = mem
    BY <1>1, <1>4 DEF RunRefreshed, TakesTokens
  <2> QED
    BY <1>1, <1>2, <1>4, <2>1, RunStops
<1>5. CASE Code(p) = "401" /\ IsCurrent(p)
  <2>1. Unauthorised(p) /\ UNCHANGED <<mem, disk>>
    BY <1>5 DEF RunRefreshed
  <2> QED
    BY <1>2, <1>5, <2>1, UnauthorisedStep DEF Got
<1>6. CASE Code(p) # "ok" /\ ~(Code(p) = "401" /\ IsCurrent(p))
  <2>1. Stop(p) /\ UNCHANGED <<mem, disk>>
    BY <1>6 DEF RunRefreshed
  <2> QED
    BY <1>1, <1>2, <2>1, RunStops
<1> QED
  BY <1>3, <1>4, <1>5, <1>6

LEMMA RunAnsweredStep ==
    ASSUME Inv, NEW p \in Run, RunAnswered(p)
    PROVE  Inv'
<1>1. /\ TypeOK /\ disk \in Disk /\ mem \in Mem /\ p \in Proc /\ ~Idling(p) /\ proc[p] \in State
      /\ proc[p].pc = "sync" /\ Got(p, "sync") /\ proc[p].pc \in Going
      /\ UNCHANGED <<sessions, disk, mem, fences, late, hist, used>>
  BY Procs DEF Inv, TypeOK, Idling, RunAnswered, Got, Going
<1>2. CASE Code(p) = "ok" /\ IsCurrent(p)
  <2>1. PICK q : q = [proc[p] EXCEPT !.pc = "apply"]
    OBVIOUS
  <2>2. /\ q \in State /\ q.pc = "apply" /\ q.call = proc[p].call /\ q.answer = proc[p].answer
        /\ q.gen = proc[p].gen /\ Go(p, q)
    <3>1. "apply" \in Stage
      BY DEF Stage
    <3>2. Go(p, q)
      BY <1>2, <2>1 DEF RunAnswered
    <3> QED
      BY <1>1, <2>1, <3>1, <3>2, StagedIs
  <2>3. CallOK(q)
    <3>1. q.call \in Calls /\ q.call.kind = "sync" /\ q.call.s \in DOMAIN sessions
      BY <1>1, <1>2, <2>2 DEF Inv, CallsOK, Got, Asking
    <3> QED
      BY <2>2, <3>1 DEF CallOK, Asking
  <2>4. TypeOK' /\ Counts' /\ Stages' /\ CallsOK' /\ FenceOK'
    <3>1. Fenced(p, q)
      BY <1>1, <2>2, RunFenced
    <3> QED
      BY <1>1, <2>2, <2>3, <3>1, RunKeeps DEF Going, TypeOK
  <2>5. ASSUME ~hist'.overtaken PROVE Ours'
    <3>1. PICK a : a = disk.bound
      OBVIOUS
    <3>2. Ours /\ Running(p) /\ ~hist.overtaken
      BY <1>1, <2>5, RunAlone
    <3>3. Installed => Held(a)'
      BY <1>1, <3>1, <3>2, HeldKept DEF Ours, Active
    <3>4. Of(proc[p].call.s, a)
      BY <1>1, <1>2, <3>1, <3>2 DEF Running, Carries
    <3>5. Carries(p, a)'
      <4>1. PICK s : s = proc[p].call.s
        OBVIOUS
      <4>2. proc'[p] = q
        BY <1>1, <2>2, GoIs
      <4>3. Of(s, a)'
        BY <1>1, <3>4, <4>1 DEF Of
      <4> QED
        BY <2>2, <4>1, <4>2, <4>3 DEF Carries, Got
    <3>6. disk'.enabled => disk'.email = a /\ TokenOf(disk.stored, a)' /\ (mem.phase # "disconnected" => mem.email = a)
      BY <1>1, <3>1, <3>2 DEF Ours, Enabled, TokenOf, Of
    <3>7. NothingStrays' /\ q.pc \in Going \cup {"idle"}
      BY <1>1, <2>2, <3>2 DEF Ours, NothingStrays, Going
    <3> QED
      BY <1>1, <2>2, <3>1, <3>2, <3>3, <3>5, <3>6, <3>7, RunMoves
  <2> QED
    BY <2>4, <2>5 DEF Inv
<1>3. CASE Code(p) = "401" /\ IsCurrent(p)
  <2>1. Unauthorised(p)
    BY <1>3 DEF RunAnswered
  <2> QED
    BY <1>1, <1>3, <2>1, UnauthorisedStep
<1>4. CASE ~(Code(p) = "ok" /\ IsCurrent(p)) /\ ~(Code(p) = "401" /\ IsCurrent(p))
  <2>1. Stop(p)
    BY <1>4 DEF RunAnswered
  <2>2. PICK tok : tok = proc[p].answer.tok
    OBVIOUS
  <2> QED
    BY <1>1, <2>1, <2>2, RunStops
<1> QED
  BY <1>2, <1>3, <1>4

\* What is applied is of the account the data belong to.
LEMMA ApplyStep ==
    ASSUME Inv, NEW p \in Run, Apply(p)
    PROVE  Inv'
<1>1. /\ TypeOK /\ disk \in Disk /\ mem \in Mem /\ p \in Proc /\ ~Idling(p) /\ proc[p] \in State
      /\ proc[p].pc = "apply" /\ proc[p].pc \in Going /\ Go(p, Idle) /\ Idle \in State
      /\ UNCHANGED <<sessions, mem, fences, late, used>>
  BY Procs, IdleIs DEF Inv, TypeOK, Idling, Apply, Stop, Going
<1>2. /\ hist' \in [strays: SUBSET BOOLEAN, overtaken: BOOLEAN] /\ hist'.overtaken = hist.overtaken
      /\ hist' = hist \/ (InFence(p) /\ sessions[proc[p].call.s].account # disk.bound)
  <2>1. hist \in [strays: SUBSET BOOLEAN, overtaken: BOOLEAN]
    BY <1>1 DEF TypeOK
  <2>2. PICK x \in SUBSET BOOLEAN : x = hist.strays \cup {hist.overtaken}
    BY <2>1
  <2>3. \/ hist' = hist
        \/ hist' = [hist EXCEPT !.strays = x] /\ InFence(p) /\ sessions[proc[p].call.s].account # disk.bound
    BY <2>2 DEF Apply
  <2> QED
    BY <2>1, <2>3
<1>3. /\ disk' \in Disk /\ disk'.fence = disk.fence /\ disk'.bound = disk.bound /\ disk'.stored = disk.stored
      /\ \/ disk'.email = disk.email /\ disk'.enabled = disk.enabled
         \/ disk'.email = mem.email /\ IsCurrent(p)
  <2>1. CASE InFence(p) /\ IsCurrent(p)
    <3>1. disk' = Persisted(disk, TRUE)
      BY <2>1 DEF Apply
    <3> QED
      BY <1>1, <2>1, <3>1, PersistedIs
  <2>2. CASE ~(InFence(p) /\ IsCurrent(p))
    BY <1>1, <2>2 DEF Apply
  <2> QED
    BY <2>1, <2>2
<1>4. TypeOK' /\ Counts' /\ Stages' /\ CallsOK' /\ FenceOK'
  <2>1. CallOK(Idle) /\ Fenced(p, Idle) /\ Idle.pc = "idle"
    BY <1>1, IdleIs, IdleMoves
  <2> QED
    BY <1>1, <1>2, <1>3, <2>1, RunKeeps
<1>5. ASSUME ~hist'.overtaken PROVE Ours'
  <2>1. PICK a : a = disk.bound
    OBVIOUS
  <2>2. Ours /\ Running(p) /\ ~hist.overtaken
    BY <1>1, <1>2, <1>5, RunAlone
  <2>3. hist' = hist
    <3>1. InFence(p) => Of(proc[p].call.s, a)
      BY <1>1, <2>1, <2>2 DEF Running, Carries
    <3>2. proc[p].call.s \in DOMAIN sessions /\ proc[p].call.s # 0
      BY <1>1 DEF Inv, CallsOK, TypeOK
    <3> QED
      BY <1>2, <2>1, <3>1, <3>2 DEF Of
  <2>4. Installed <=> IsCurrent(p)
    BY <1>1, <2>2 DEF Running
  <2>5. Installed => Held(a) /\ mem.email = a
    BY <2>1, <2>2 DEF Ours, Active
  <2>6. Installed => Held(a)'
    BY <1>1, <1>3, <2>5, HeldKept
  <2>7. disk'.enabled => disk'.email = a /\ TokenOf(disk.stored, a)' /\ (mem.phase # "disconnected" => mem.email = a)
    <3>1. CASE IsCurrent(p) /\ disk'.email = mem.email
      BY <1>1, <1>3, <2>4, <2>5, <3>1 DEF Held, TokenOf, Of
    <3>2. CASE disk'.email = disk.email /\ disk'.enabled = disk.enabled
      BY <1>1, <1>3, <2>1, <2>2, <3>2 DEF Ours, Enabled, TokenOf, Of
    <3> QED
      BY <1>3, <3>1, <3>2
  <2>8. NothingStrays'
    BY <2>2, <2>3 DEF Ours, NothingStrays
  <2> QED
    BY <1>1, <1>3, <2>1, <2>2, <2>6, <2>7, <2>8, RunMoves, IdleIs
<1> QED
  BY <1>4, <1>5 DEF Inv

LEMMA ExpireSessionStep ==
    ASSUME Inv, NEW p \in Run, ExpireSession(p)
    PROVE  Inv'
<1>1. /\ TypeOK /\ disk \in Disk /\ mem \in Mem /\ p \in Proc /\ ~Idling(p) /\ proc[p] \in State
      /\ proc[p].pc = "expire" /\ proc[p].pc \in Going /\ UNCHANGED <<sessions, fences, late, hist, used>>
      /\ mem' = WithoutTokens(mem) /\ disk' = Dropping(disk)
  BY Procs DEF Inv, TypeOK, Idling, ExpireSession, Going
<1>2. PICK g \in Nat : g = proc[p].gen
  BY <1>1 DEF State
<1>3. PICK q \in State : Go(p, q) /\ CallOK(q) /\ q.pc = "drop" /\ q.gen = g
  <2>1. "drop" \in Quiet /\ Go(p, After(proc[p], "drop", g))
    BY <1>2 DEF Quiet, Stage, Asking, ExpireSession
  <2> QED
    BY <1>1, <2>1, AfterMove
<1>4. /\ mem' \in Mem /\ mem'.access = None /\ mem'.refresh = None
      /\ mem'.gen = mem.gen /\ mem'.token = mem.token /\ mem'.engine = mem.engine
      /\ mem'.phase = mem.phase /\ mem'.email = mem.email /\ mem'.pending = mem.pending
  BY <1>1, WithoutTokensIs
<1>5. /\ disk' \in Disk /\ disk'.stored \in {disk.stored, None}
      /\ disk'.fence = disk.fence /\ disk'.bound = disk.bound /\ disk'.email = disk.email
      /\ disk'.enabled = disk.enabled
  BY <1>1, DroppingIs
<1>6. TypeOK' /\ Counts' /\ Stages' /\ CallsOK' /\ FenceOK'
  <2>1. Fenced(p, q)
    BY <1>1, <1>2, <1>3, RunFenced
  <2> QED
    BY <1>1, <1>3, <1>4, <1>5, <2>1, RunKeeps DEF Going, TypeOK
<1>7. ASSUME ~hist'.overtaken PROVE Ours'
  <2>1. PICK a : a = disk.bound
    OBVIOUS
  <2>2. Ours /\ Running(p) /\ ~hist.overtaken
    BY <1>1, <1>7, RunAlone
  <2>3. Installed => Held(a)'
    <3>1. Installed => TokenOf(disk.stored, a)
      BY <2>1, <2>2 DEF Ours, Active, Held
    <3> QED
      BY <1>1, <1>4, <1>5, <3>1 DEF Held, SessionOf, TokenOf, Of
  <2>4. Carries(p, a)'
    <3>1. proc'[p] = q
      BY <1>1, <1>3, GoIs
    <3> QED
      BY <1>3, <3>1 DEF Carries, Got
  <2>5. disk'.enabled => disk'.email = a /\ TokenOf(disk.stored, a)' /\ (mem.phase # "disconnected" => mem.email = a)
    BY <1>1, <1>5, <2>1, <2>2 DEF Ours, Enabled, TokenOf, Of
  <2>6. NothingStrays' /\ q.pc \in Going \cup {"idle"}
    BY <1>1, <1>3, <2>2 DEF Ours, NothingStrays, Going
  <2> QED
    BY <1>1, <1>2, <1>3, <1>4, <1>5, <2>1, <2>2, <2>3, <2>4, <2>5, <2>6, RunMoves
<1> QED
  BY <1>6, <1>7 DEF Inv

LEMMA DropSessionStep ==
    ASSUME Inv, NEW p \in Run, DropSession(p)
    PROVE  Inv'
<1>1. /\ TypeOK /\ disk \in Disk /\ mem \in Mem /\ p \in Proc /\ p # "init" /\ p # "flow"
      /\ ~Idling(p) /\ proc[p] \in State /\ Stages /\ CallsOK /\ FenceOK /\ Counts'
      /\ proc[p].pc = "drop" /\ UNCHANGED <<sessions, disk, late, hist>>
      /\ mem' = Dropped(mem) /\ ClearFence
  BY Procs DEF Inv, TypeOK, Idling, DropSession, Counts
<1>2. PICK g \in Nat : g = mem.gen + 1
  BY <1>1 DEF Mem
<1>3. PICK q \in State : Go(p, q) /\ CallOK(q) /\ q.pc = "fence" /\ q.gen = g
  <2>1. "fence" \in Quiet /\ Go(p, After(proc[p], "fence", g))
    BY <1>2 DEF Quiet, Stage, Asking, DropSession
  <2> QED
    BY <1>1, <2>1, AfterMove
<1>4. /\ mem' \in Mem /\ mem'.gen = g /\ mem'.token = 0 /\ mem'.engine = 0
      /\ mem'.phase = mem.phase /\ mem'.email = mem.email /\ mem'.pending = mem.pending
      /\ mem'.access = mem.access /\ mem'.refresh = mem.refresh
  BY <1>1, <1>2, DroppedIs
<1>5. proc' \in [Proc -> State] /\ proc'[p] = q /\ \A r \in Proc : r # p => proc'[r] = proc[r]
  BY <1>1, <1>3, GoIs
<1>6. Stages' /\ CallsOK'
  BY <1>1, <1>3, StagesMove, CallsMove DEF StageOK
<1>7. FenceOK' /\ fences' \in Seq([set: BOOLEAN, gen: Nat, token: Nat])
  BY <1>1, <1>2, <1>3, <1>4, FenceDropped
<1>8. TypeOK'
  BY <1>1, <1>4, <1>5, <1>7 DEF TypeOK
<1>9. ASSUME ~hist'.overtaken PROVE Ours'
  <2>1. /\ Ours /\ Running(p) /\ Idling("init") /\ Flow.pc \in {"idle", "code"} \cup Ends
        /\ mem.phase # "choose-merge"
        /\ Flow.pc \in Ends => Flow.why \notin {"fail", "cancel"}
    BY <1>1, <1>9, RunAlone
  <2>2. ~Installed'
    <3>1. 0 # g
      BY <1>1, <1>2 DEF Mem
    <3> QED
      BY <1>4, <3>1 DEF Installed
  <2>3. Idling("init")' /\ Flow' = Flow /\ \A r \in Run : r # p => Idling(r)'
    BY <1>1, <1>5, <2>1, Procs DEF Running, Idling, Flow
  <2>4. Starting' /\ SigningIn' /\ Choosing' /\ Active'
    BY <1>4, <2>1, <2>2, <2>3 DEF Starting, SigningIn, Choosing, Active, Signing, Ends
  <2>5. \A r \in Run : proc'[r].pc \notin Going
    BY <1>3, <1>5, <2>3 DEF Idling, Going
  <2>6. Leaving'
    BY <2>1, <2>2, <2>3, <2>5 DEF Leaving, Ends
  <2>7. Enabled'
    BY <1>1, <1>4, <2>1 DEF Ours, Enabled, TokenOf, Of
  <2>8. ASSUME NEW r \in Run, ~Idling(r)' PROVE Running(r)'
    <3>1. r = p
      BY <2>3, <2>8
    <3>2. PICK a : a = disk'.bound
      OBVIOUS
    <3>3. Carries(p, a)'
      BY <1>3, <1>5 DEF Carries, Got
    <3>4. mem.phase = "disconnected" => ~disk'.enabled
      BY <1>1, <2>1 DEF Running
    <3> QED
      BY <1>4, <2>1, <2>2, <2>3, <2>5, <3>1, <3>2, <3>3, <3>4 DEF Running
  <2> QED
    BY <1>1, <2>1, <2>4, <2>6, <2>7, <2>8 DEF Ours, NothingStrays
<1> QED
  BY <1>1, <1>6, <1>7, <1>8, <1>9 DEF Inv

LEMMA SayExpiredStep ==
    ASSUME Inv, NEW p \in Run, SayExpired(p)
    PROVE  Inv'
<1>1. /\ TypeOK /\ disk \in Disk /\ mem \in Mem /\ p \in Proc /\ p # "init" /\ p # "flow"
      /\ ~Idling(p) /\ proc[p].pc = "fence" /\ UNCHANGED <<sessions, disk, fences, late, hist, used>>
      /\ Go(p, Idle) /\ mem' = [mem EXCEPT !.phase = "expired"] /\ Idle \in State
  BY Procs, IdleIs DEF Inv, TypeOK, Idling, SayExpired, Stop
<1>2. /\ mem' \in Mem /\ mem'.access = mem.access /\ mem'.refresh = mem.refresh
      /\ mem'.gen = mem.gen /\ mem'.token = mem.token /\ mem'.engine = mem.engine
      /\ mem'.phase = "expired" /\ mem'.email = mem.email /\ mem'.pending = mem.pending
  <2>1. mem' \in Mem
    BY <1>1 DEF Mem, Phases
  <2> QED
    BY <1>1, <2>1 DEF Mem
<1>3. proc'[p] = Idle /\ \A r \in Proc : r # p => proc'[r] = proc[r]
  BY <1>1, GoIs
<1>4. TypeOK' /\ Counts' /\ Stages' /\ CallsOK' /\ FenceOK'
  <2>1. CallOK(Idle) /\ Fenced(p, Idle) /\ Idle.pc = "idle"
    BY <1>1, IdleIs, IdleMoves
  <2> QED
    BY <1>1, <1>2, <2>1, RunKeeps DEF TypeOK
<1>5. ASSUME ~hist'.overtaken PROVE Ours'
  <2>1. /\ Ours /\ Running(p) /\ Idling("init") /\ Flow.pc \in {"idle", "code"} \cup Ends
        /\ Flow.pc \in Ends => ~Installed /\ Flow.why \notin {"fail", "cancel"}
    BY <1>1, <1>5, RunAlone
  <2>2. ~Installed /\ ~Installed'
    BY <1>1, <1>2, <2>1 DEF Running, Going, Installed
  <2>3. Idling("init")' /\ Flow' = Flow /\ \A r \in Run : Idling(r)'
    BY <1>1, <1>3, <2>1, IdleIs, Procs DEF Running, Idling, Flow
  <2>4. Starting' /\ SigningIn' /\ Choosing' /\ Active'
    BY <1>2, <2>1, <2>2, <2>3 DEF Starting, SigningIn, Choosing, Active, Signing, Ends
  <2>5. \A r \in Run : proc'[r].pc \notin Going
    BY <2>3 DEF Idling, Going
  <2>6. Leaving'
    BY <2>1, <2>2, <2>3, <2>5 DEF Leaving, Ends
  <2>7. Enabled'
    <3>1. disk.enabled => mem.phase # "disconnected"
      BY <2>1 DEF Running
    <3> QED
      BY <1>1, <1>2, <2>1, <3>1 DEF Ours, Enabled, TokenOf, Of
  <2> QED
    BY <1>1, <2>1, <2>3, <2>4, <2>6, <2>7 DEF Ours, NothingStrays
<1> QED
  BY <1>4, <1>5 DEF Inv

LEMMA RunStepStep ==
    ASSUME Inv, NEW p \in Run, RunStep(p)
    PROVE  Inv'
BY StartRunStep, RunRefreshedStep, RunAnsweredStep, ApplyStep, ExpireSessionStep, DropSessionStep,
   SayExpiredStep DEF RunStep

----------------------------------------------------------------------------
(* What the user does. *)

LEMMA FlowKeeps ==
    ASSUME Inv, NEW q \in State, Go("flow", q), CallOK(q), Fenced("flow", q), StageOK("flow", q),
           UNCHANGED <<sessions, fences, late>>,
           hist' \in [strays: SUBSET BOOLEAN, overtaken: BOOLEAN],
           mem' \in Mem, disk' \in Disk, disk'.fence = disk.fence,
           mem'.gen = mem.gen, mem'.token = mem.token,
           mem'.pending <= mem.gen,
           mem'.engine = mem.gen => mem.token = mem.gen /\ disk.fence = mem.gen,
           mem'.phase = "choose-merge" /\ mem'.pending = mem.gen => mem.token = mem.gen
    PROVE  TypeOK' /\ Stages' /\ CallsOK' /\ FenceOK'
<1>1. TypeOK /\ Stages /\ CallsOK /\ FenceOK /\ "flow" \in Proc
  BY Procs DEF Inv
<1>2. proc' \in [Proc -> State]
  BY <1>1, GoIs
<1>3. TypeOK'
  BY <1>1, <1>2 DEF TypeOK
<1>4. Stages' /\ CallsOK'
  BY <1>1, StagesMove, CallsMove
<1>5. FenceOK'
  BY <1>1, FenceKept
<1> QED
  BY <1>3, <1>4, <1>5

\* The same, where the page and the fence are as they were.
LEMMA FlowKeepsAll ==
    ASSUME Inv, NEW q \in State, Go("flow", q), CallOK(q), Fenced("flow", q), StageOK("flow", q),
           UNCHANGED <<sessions, fences, late>>,
           hist' \in [strays: SUBSET BOOLEAN, overtaken: BOOLEAN],
           mem' \in Mem, disk' \in Disk, disk'.fence = disk.fence,
           mem'.gen = mem.gen, mem'.token = mem.token, mem'.pending = mem.pending,
           mem'.engine = mem.engine, mem'.phase = "choose-merge" => mem.phase = "choose-merge"
    PROVE  TypeOK' /\ Stages' /\ CallsOK' /\ FenceOK'
<1>1. /\ mem'.pending <= mem.gen
      /\ mem'.engine = mem.gen => mem.token = mem.gen /\ disk.fence = mem.gen
      /\ mem'.phase = "choose-merge" /\ mem'.pending = mem.gen => mem.token = mem.gen
  BY DEF Inv, FenceOK, Installed
<1> QED
  BY <1>1, FlowKeeps

LEMMA FlowMoves ==
    ASSUME Inv, NEW q \in State, Go("flow", q)
    PROVE  /\ Flow' = q /\ (Idling("init")' <=> Idling("init"))
           /\ \A r \in Run : proc'[r] = proc[r] /\ (Idling(r)' <=> Idling(r))
           /\ proc'["init"] = proc["init"]
<1>1. proc'["flow"] = q /\ \A r \in Proc : r # "flow" => proc'[r] = proc[r]
  BY Procs, GoIs DEF Inv
<1> QED
  BY <1>1, Procs DEF Flow, Idling

LEMMA SetEmailStep ==
    ASSUME Inv, NEW a \in Account, SetEmail(a)
    PROVE  Inv'
<1>1. /\ TypeOK /\ mem \in Mem /\ UNCHANGED <<sessions, disk, proc, fences, late, used>>
      /\ mem.phase = "disconnected" /\ mem' = [mem EXCEPT !.email = a]
  BY DEF Inv, TypeOK, SetEmail
<1>2. /\ mem' \in Mem /\ mem'.access = mem.access /\ mem'.refresh = mem.refresh
      /\ mem'.gen = mem.gen /\ mem'.token = mem.token /\ mem'.engine = mem.engine
      /\ mem'.phase = mem.phase /\ mem'.pending = mem.pending
  <2>1. mem' \in Mem
    BY <1>1 DEF Mem
  <2> QED
    BY <1>1, <2>1 DEF Mem
<1>3. /\ hist' \in [strays: SUBSET BOOLEAN, overtaken: BOOLEAN] /\ hist'.strays = hist.strays
      /\ ~hist'.overtaken => ~hist.overtaken /\ ~Busy
  <2>1. hist \in [strays: SUBSET BOOLEAN, overtaken: BOOLEAN] /\ Busy \in BOOLEAN
    BY <1>1 DEF TypeOK, Busy
  <2>2. PICK x \in BOOLEAN : x = (hist.overtaken \/ Busy)
    BY <2>1
  <2>3. hist' = [hist EXCEPT !.overtaken = x]
    BY <2>2 DEF SetEmail, Overtaking
  <2> QED
    BY <2>1, <2>2, <2>3
<1>4. TypeOK' /\ Counts' /\ Stages' /\ CallsOK' /\ FenceOK'
  BY <1>1, <1>2, <1>3
     DEF Inv, TypeOK, Counts, Stages, CallsOK, FenceOK, Idling, Flow, Installed, IsCurrent, Code
<1>5. ASSUME ~hist'.overtaken PROVE Ours'
  <2>1. Ours /\ Idling("init") /\ \A r \in Run : Idling(r)
    BY <1>3, <1>5, Procs DEF Inv, Busy, Idling
  <2>2. ~Installed /\ ~Installed' /\ Flow.pc \notin Signing
    BY <1>1, <1>2, <2>1 DEF Ours, Active, SigningIn, Installed
  <2>3. Starting' /\ SigningIn' /\ Choosing' /\ Active'
    BY <1>1, <1>2, <2>1, <2>2 DEF Starting, SigningIn, Choosing, Active, Idling, Flow
  <2>4. Leaving' /\ Enabled' /\ \A r \in Run : Idling(r)'
    BY <1>1, <1>2, <2>1, <2>2
       DEF Ours, Leaving, Enabled, Idling, Alone, Flow, IsCurrent, Going, TokenOf, Of
  <2> QED
    BY <1>1, <1>3, <2>1, <2>3, <2>4 DEF Ours, NothingStrays
<1> QED
  BY <1>4, <1>5 DEF Inv

LEMMA RequestCodeStep ==
    ASSUME Inv, RequestCode
    PROVE  Inv'
<1>1. /\ TypeOK /\ disk \in Disk /\ mem \in Mem /\ Counts' /\ FenceOK
      /\ UNCHANGED <<sessions, disk, mem, fences, late, hist, used>>
      /\ Flow.pc = "idle" /\ mem.phase \in {"disconnected", "code-sent", "expired"}
  BY DEF Inv, TypeOK, RequestCode, Free, Counts
<1>2. PICK c \in Calls : c = Request("code") /\ c.kind = "code"
  BY RequestIs
<1>3. PICK q \in State : Go("flow", q) /\ CallOK(q) /\ q.pc = "code" /\ q.gen = 0
  <2>1. PICK r \in State : r = Idle /\ r.gen = 0
    BY IdleIs
  <2>2. "code" \in Asking /\ Go("flow", Calling(r, "code", c))
    BY <1>2, <2>1 DEF Asking, RequestCode
  <2> QED
    BY <1>1, <1>2, <2>1, <2>2, CallingMove, Procs
<1>4. CallOK(q) /\ StageOK("flow", q) /\ Fenced("flow", q)
  <2>1. CallOK(q) /\ StageOK("flow", q)
    BY <1>3, Procs DEF StageOK
  <2>2. mem.gen \in Nat /\ mem.gen > 0
    BY <1>1 DEF Mem, FenceOK
  <2>3. Fenced("flow", q)
    BY <1>3, <2>2, Procs DEF Fenced
  <2> QED
    BY <2>1, <2>3
<1>5. TypeOK' /\ Stages' /\ CallsOK' /\ FenceOK'
  BY <1>1, <1>3, <1>4, FlowKeepsAll DEF TypeOK
<1>6. ASSUME ~hist'.overtaken PROVE Ours'
  <2>1. Ours
    BY <1>1, <1>6 DEF Inv
  <2>2. /\ Flow' = q /\ (Idling("init")' <=> Idling("init")) /\ proc'["init"] = proc["init"]
        /\ \A r \in Run : proc'[r] = proc[r] /\ (Idling(r)' <=> Idling(r))
    BY <1>3, FlowMoves
  <2>3. PICK a : a = disk.bound
    OBVIOUS
  <2>4. Held(a)' <=> Held(a)
    BY <1>1, HeldKept
  <2>5. \A r \in Proc : proc'[r] = proc[r] /\ Carries(r, a) => Carries(r, a)'
    BY <1>1, CarriesKept
  <2>6. Starting'
    BY <1>1, <1>3, <2>1, <2>2, <2>3, <2>4, <2>5, Procs DEF Ours, Starting, Installed
  <2>7. SigningIn' /\ Choosing' /\ Leaving'
    BY <1>1, <1>3, <2>2 DEF SigningIn, Choosing, Leaving, Signing, Ends
  <2>8. Active' /\ Enabled'
    BY <1>1, <1>3, <2>1, <2>2, <2>3, <2>4 DEF Ours, Active, Enabled, Installed, TokenOf, Of
  <2>9. ASSUME NEW r \in Run, ~Idling(r)' PROVE Running(r)'
    <3>1. Running(r) /\ proc'[r] = proc[r]
      BY <2>1, <2>2, <2>9 DEF Ours
    <3>2. Carries(r, a) => Carries(r, a)'
      BY <2>5, <3>1, Procs
    <3> QED
      BY <1>1, <1>3, <2>2, <2>3, <3>1, <3>2, Procs DEF Running, Installed, IsCurrent, InFence, Ends
  <2> QED
    BY <1>1, <2>1, <2>6, <2>7, <2>8, <2>9 DEF Ours, NothingStrays
<1> QED
  BY <1>1, <1>5, <1>6 DEF Inv

LEMMA CodeSentStep ==
    ASSUME Inv, CodeSent
    PROVE  Inv'
<1>1. /\ TypeOK /\ disk \in Disk /\ mem \in Mem /\ Counts' /\ FenceOK
      /\ UNCHANGED <<sessions, fences, late, hist, used>> /\ Flow.pc = "code" /\ Go("flow", Idle)
      /\ Idle \in State
  BY IdleIs DEF Inv, TypeOK, CodeSent, Got, Flow, Counts, Stop
<1>2. /\ mem' \in Mem /\ mem'.access = mem.access /\ mem'.refresh = mem.refresh
      /\ mem'.gen = mem.gen /\ mem'.token = mem.token /\ mem'.engine = mem.engine
      /\ mem'.email = mem.email /\ mem'.pending = mem.pending
      /\ disk' \in Disk /\ disk'.stored = disk.stored /\ disk'.fence = disk.fence /\ disk'.bound = disk.bound
      /\ \/ mem'.phase = mem.phase /\ disk'.email = disk.email /\ disk'.enabled = disk.enabled
         \/ mem'.phase = "code-sent" /\ ~disk'.enabled
  <2>1. CASE Code("flow") = "ok"
    <3>1. mem' = [mem EXCEPT !.phase = "code-sent"] /\ disk' = Persisted(disk, FALSE)
      BY <2>1 DEF CodeSent
    <3>2. mem' \in Mem
      BY <1>1, <3>1 DEF Mem, Phases
    <3>3. /\ mem'.access = mem.access /\ mem'.refresh = mem.refresh
          /\ mem'.gen = mem.gen /\ mem'.token = mem.token /\ mem'.engine = mem.engine
          /\ mem'.email = mem.email /\ mem'.pending = mem.pending /\ mem'.phase = "code-sent"
      BY <1>1, <3>1, <3>2 DEF Mem
    <3> QED
      BY <1>1, <3>1, <3>2, <3>3, PersistedIs
  <2>2. CASE Code("flow") # "ok"
    BY <1>1, <2>2 DEF CodeSent
  <2> QED
    BY <2>1, <2>2
<1>3. TypeOK' /\ Stages' /\ CallsOK' /\ FenceOK'
  <2>1. CallOK(Idle) /\ StageOK("flow", Idle) /\ Fenced("flow", Idle)
    BY <1>1, IdleMoves, Procs
  <2> QED
    BY <1>1, <1>2, <2>1, FlowKeepsAll DEF TypeOK
<1>4. ASSUME ~hist'.overtaken PROVE Ours'
  <2>1. Ours /\ mem.phase # "choose-merge"
    BY <1>1, <1>4 DEF Inv, Ours, Choosing
  <2>2. /\ Flow'.pc = "idle" /\ (Idling("init")' <=> Idling("init")) /\ proc'["init"] = proc["init"]
        /\ \A r \in Run : proc'[r] = proc[r] /\ (Idling(r)' <=> Idling(r))
    BY <1>1, FlowMoves, IdleIs
  <2>3. PICK a : a = disk.bound
    OBVIOUS
  <2>4. Held(a)' <=> Held(a)
    BY <1>1, <1>2, HeldKept
  <2>5. \A r \in Proc : proc'[r] = proc[r] /\ Carries(r, a) => Carries(r, a)'
    BY <1>1, CarriesKept
  <2>6. Starting'
    BY <1>1, <1>2, <2>1, <2>2, <2>3, <2>4, <2>5, Procs DEF Ours, Starting, Installed
  <2>7. SigningIn' /\ Choosing' /\ Leaving'
    BY <1>2, <2>1, <2>2 DEF SigningIn, Choosing, Leaving, Signing, Ends
  <2>8. Active' /\ Enabled'
    BY <1>1, <1>2, <2>1, <2>2, <2>3, <2>4 DEF Ours, Active, Enabled, Installed, TokenOf, Of
  <2>9. ASSUME NEW r \in Run, ~Idling(r)' PROVE Running(r)'
    <3>1. Running(r) /\ proc'[r] = proc[r]
      BY <2>1, <2>2, <2>9 DEF Ours
    <3>2. Carries(r, a) => Carries(r, a)'
      BY <2>5, <3>1, Procs
    <3>3. disk'.enabled => disk.enabled
      BY <1>2
    <3>4. mem.phase # "connected" \/ proc[r].pc \notin Going \/ IsCurrent(r)
      BY <1>1, <3>1 DEF Running, Ends
    <3>5. mem'.phase # "connected" \/ mem'.phase = mem.phase
      BY <1>2
    <3>6. mem'.phase = "disconnected" => ~disk'.enabled
      BY <1>2, <3>1 DEF Running
    <3> QED
      BY <1>1, <1>2, <2>2, <2>3, <3>1, <3>2, <3>3, <3>4, <3>5, <3>6
         DEF Running, Installed, IsCurrent, InFence, Ends
  <2> QED
    BY <1>1, <2>1, <2>6, <2>7, <2>8, <2>9 DEF Ours, NothingStrays
<1> QED
  BY <1>1, <1>3, <1>4 DEF Inv

LEMMA SignInStep ==
    ASSUME Inv, SignIn
    PROVE  Inv'
<1>1. /\ TypeOK /\ disk \in Disk /\ mem \in Mem /\ Counts' /\ FenceOK
      /\ UNCHANGED <<sessions, mem, fences, late>>
      /\ Flow.pc = "idle" /\ mem.phase \in {"code-sent", "expired"}
  BY SpendIs DEF Inv, TypeOK, SignIn, Free
<1>2. PICK d \in Nat, x \in Account : d = used.logins + 2 /\ x = mem.email
  BY <1>1 DEF Inv, Counts, Mem
<1>3. disk' = [disk EXCEPT !.device = d]
  BY <1>2 DEF SignIn
<1>4. /\ disk' \in Disk /\ disk'.fence = disk.fence /\ disk'.bound = disk.bound /\ disk'.stored = disk.stored
      /\ disk'.email = disk.email /\ disk'.enabled = disk.enabled
  <2>1. disk' \in Disk
    BY <1>1, <1>3 DEF Disk
  <2> QED
    BY <1>1, <1>3, <2>1 DEF Disk
<1>5. /\ hist' \in [strays: SUBSET BOOLEAN, overtaken: BOOLEAN] /\ hist'.strays = hist.strays
      /\ ~hist'.overtaken => ~hist.overtaken /\ ~Busy
  <2>1. hist \in [strays: SUBSET BOOLEAN, overtaken: BOOLEAN] /\ Busy \in BOOLEAN
    BY <1>1 DEF TypeOK, Busy
  <2>2. PICK y \in BOOLEAN : y = (hist.overtaken \/ Busy \/ (disk.enabled /\ HeldToken # None))
    OBVIOUS
  <2>3. hist' = [hist EXCEPT !.overtaken = y]
    BY <2>2 DEF SignIn
  <2> QED
    BY <2>1, <2>2, <2>3
<1>6. PICK c : c = [Request("verify") EXCEPT !.account = x, !.device = d]
  OBVIOUS
<1>7. c \in Calls /\ c.kind = "verify" /\ c.account = x
  <2>1. c \in Calls
    BY <1>6, RequestIs DEF Calls
  <2> QED
    BY <1>6, <2>1, RequestIs DEF Calls
<1>8. PICK r : r = [Idle EXCEPT !.account = x, !.why = "login"]
  OBVIOUS
<1>9. r \in State /\ r.account = x /\ r.gen = 0
  <2>1. r \in State
    BY <1>8, IdleIs DEF State
  <2> QED
    BY <1>8, <2>1, IdleIs DEF State
<1>10. PICK q \in State : /\ Go("flow", q) /\ CallOK(q) /\ q.pc = "verify" /\ q.gen = 0 /\ q.account = x
                          /\ q.call = c /\ q.answer = None
  <2>1. "verify" \in Asking /\ Go("flow", Calling(r, "verify", c))
    BY <1>2, <1>6, <1>8 DEF Asking, SignIn
  <2> QED
    BY <1>1, <1>7, <1>9, <2>1, CallingMove, Procs
<1>11. TypeOK' /\ Stages' /\ CallsOK' /\ FenceOK'
  <2>1. mem.gen \in Nat /\ mem.gen > 0
    BY <1>1 DEF Mem, FenceOK
  <2>2. StageOK("flow", q) /\ Fenced("flow", q)
    BY <1>10, <2>1, Procs DEF StageOK, Fenced, Signing
  <2> QED
    BY <1>1, <1>4, <1>5, <1>10, <2>2, FlowKeepsAll
<1>12. ASSUME ~hist'.overtaken PROVE Ours'
  <2>1. Ours /\ Idling("init") /\ \A r1 \in Run : Idling(r1)
    BY <1>5, <1>12, Procs DEF Inv, Busy, Idling
  <2>2. Flow' = q /\ Idling("init")' /\ \A r1 \in Run : Idling(r1)'
    BY <1>10, <2>1, FlowMoves
  <2>3. PICK a : a = disk.bound
    OBVIOUS
  <2>4. Held(a)' <=> Held(a)
    BY <1>1, <1>4, HeldKept
  <2>5. Starting' /\ Choosing' /\ Leaving'
    BY <1>1, <1>10, <2>2 DEF Starting, Choosing, Leaving, Ends
  <2>6. SigningIn'
    BY <1>1, <1>2, <1>7, <1>10, <2>2 DEF SigningIn, Alone
  <2>7. Active' /\ Enabled'
    BY <1>1, <1>4, <1>10, <2>1, <2>2, <2>3, <2>4 DEF Ours, Active, Enabled, Installed, TokenOf, Of
  <2> QED
    BY <1>5, <2>1, <2>2, <2>5, <2>6, <2>7 DEF Ours, NothingStrays
<1> QED
  BY <1>1, <1>11, <1>12 DEF Inv

LEMMA ChooseMergeStep ==
    ASSUME Inv, ChooseMerge
    PROVE  Inv'
<1>1. /\ TypeOK /\ disk \in Disk /\ mem \in Mem /\ Counts' /\ FenceOK
      /\ UNCHANGED <<sessions, disk, mem, fences, late, hist, used>>
      /\ Flow.pc = "idle" /\ mem.phase = "choose-merge" /\ mem.snap # None
  BY DEF Inv, TypeOK, ChooseMerge, Free, Counts
<1>2. PICK g \in Nat, x \in Account, y \in Account : g = mem.pending /\ x = mem.email /\ y = mem.snap
  BY <1>1 DEF Mem
<1>3. PICK q : q = [Idle EXCEPT !.pc = "write", !.gen = g, !.account = x, !.snap = y, !.why = "merge"]
  OBVIOUS
<1>4. /\ q \in State /\ q.pc = "write" /\ q.gen = g /\ q.account = x /\ q.snap = y
      /\ q.call = None /\ q.answer = None /\ Go("flow", q)
  <2>1. q \in State
    BY <1>2, <1>3, IdleIs DEF State, Stage
  <2>2. Go("flow", q)
    BY <1>2, <1>3 DEF ChooseMerge
  <2> QED
    BY <1>3, <2>1, <2>2, IdleIs DEF State
<1>5. TypeOK' /\ Stages' /\ CallsOK' /\ FenceOK'
  <2>1. CallOK(q) /\ StageOK("flow", q)
    BY <1>4, SilentIs, Procs DEF StageOK, Silent, Asking, Signing
  <2>2. Fenced("flow", q)
    BY <1>1, <1>2, <1>4, Procs DEF Fenced, FenceOK
  <2> QED
    BY <1>1, <1>4, <2>1, <2>2, FlowKeepsAll DEF TypeOK
<1>6. ASSUME ~hist'.overtaken PROVE Ours'
  <2>1. Ours /\ Alone
    BY <1>1, <1>6 DEF Inv, Ours, Choosing
  <2>2. Flow' = q /\ Idling("init")' /\ (\A r1 \in Run : Idling(r1)') /\ Alone'
    BY <1>4, <2>1, FlowMoves DEF Alone
  <2>3. ~Installed /\ ~Installed'
    BY <1>1, <2>1 DEF Ours, Choosing, Installed
  <2>4. /\ x = y /\ Held(x) /\ disk.bound \in {None, x} /\ ~disk.enabled
    BY <1>1, <1>2, <2>1 DEF Ours, Choosing
  <2>5. Held(x)'
    BY <1>1, <2>4, HeldKept
  <2>6. Starting' /\ Choosing' /\ Leaving' /\ Active' /\ Enabled'
    BY <1>1, <1>4, <2>2, <2>3, <2>4 DEF Starting, Choosing, Leaving, Active, Enabled, Ends
  <2>7. SigningIn'
    BY <1>1, <1>2, <1>4, <2>2, <2>3, <2>4, <2>5 DEF SigningIn
  <2> QED
    BY <1>1, <2>1, <2>2, <2>6, <2>7 DEF Ours, NothingStrays
<1> QED
  BY <1>1, <1>5, <1>6 DEF Inv

----------------------------------------------------------------------------
(* A sign-in goes on. *)

\* Nothing but the sign-in is under way.
LEMMA SignsAlone ==
    ASSUME Inv, ~hist.overtaken, Flow.pc \in Signing
    PROVE  /\ Ours /\ SigningIn /\ Idling("init") /\ (\A r \in Run : Idling(r))
           /\ Flow.account = mem.email /\ mem.phase \in {"code-sent", "expired", "choose-merge"}
           /\ Flow.pc # "verify" => Held(Flow.account)
           /\ Installed => Flow.account = disk.bound
           /\ disk.enabled => Flow.account = disk.bound
           /\ mem.phase = "choose-merge" => ~disk.enabled /\ ~Installed
BY DEF Inv, Ours, SigningIn, Alone, Active, Enabled, Choosing

LEMMA FlowIs ==
    ASSUME Inv
    PROVE  /\ TypeOK /\ disk \in Disk /\ mem \in Mem /\ Flow \in State /\ Flow.gen \in Nat /\ mem.gen \in Nat
           /\ mem.gen > 0 /\ Flow.gen <= mem.gen /\ mem.pending <= mem.gen /\ "flow" \in Proc
           /\ Stages /\ CallsOK /\ FenceOK /\ Flow = proc["flow"]
<1>1. TypeOK /\ disk \in Disk /\ mem \in Mem /\ Flow \in State /\ Stages /\ CallsOK /\ FenceOK
  BY Procs DEF Inv, TypeOK, Flow
<1>2. Flow.gen \in Nat /\ mem.gen \in Nat
  BY <1>1 DEF State, Mem
<1> QED
  BY <1>1, <1>2, Procs DEF FenceOK, Flow

LEMMA FailingStep ==
    ASSUME Inv, Flow.pc \in Signing, Go("flow", Failing),
           UNCHANGED <<sessions, disk, mem, fences, late, hist, used>>
    PROVE  Inv'
<1>1. PICK q \in State : Go("flow", q) /\ CallOK(q) /\ q.pc = "fail" /\ q.gen = Flow.gen
  <2>1. "fail" \in Quiet
    BY DEF Quiet, Stage, Asking
  <2> QED
    BY <2>1, FlowIs, AfterMove DEF Failing
<1>2. TypeOK' /\ Stages' /\ CallsOK' /\ FenceOK'
  <2>1. StageOK("flow", q) /\ Fenced("flow", q)
    BY <1>1, FlowIs, Procs DEF StageOK, Fenced
  <2> QED
    BY <1>1, <2>1, FlowIs, FlowKeepsAll DEF TypeOK
<1>3. ASSUME ~hist'.overtaken PROVE Ours'
  <2>1. /\ Ours /\ SigningIn /\ Idling("init") /\ (\A r \in Run : Idling(r))
        /\ mem.phase \in {"code-sent", "expired", "choose-merge"}
        /\ mem.phase = "choose-merge" => ~disk.enabled /\ ~Installed
    BY <1>3, SignsAlone
  <2>2. Flow' = q /\ Idling("init")' /\ (\A r \in Run : Idling(r)')
    BY <1>1, <2>1, FlowMoves
  <2>3. PICK a : a = disk.bound
    OBVIOUS
  <2>4. Held(a)' <=> Held(a)
    BY HeldKept
  <2>5. Starting' /\ SigningIn' /\ Choosing' /\ Leaving'
    BY <1>1, <2>1, <2>2 DEF Starting, SigningIn, Choosing, Leaving, Alone, Installed, Signing, Ends
  <2>6. Active' /\ Enabled'
    BY <1>1, <2>1, <2>2, <2>3, <2>4 DEF Ours, Active, Enabled, Installed, TokenOf, Of
  <2> QED
    BY <2>1, <2>2, <2>5, <2>6 DEF Ours, NothingStrays
<1> QED
  BY <1>2, <1>3 DEF Inv, Counts

LEMMA SignedInStep ==
    ASSUME Inv, SignedIn
    PROVE  Inv'
<1>1. /\ Flow.pc = "verify" /\ Flow.answer # None /\ UNCHANGED <<sessions, fences, late, hist, used>>
      /\ Flow.pc \in Signing
  BY DEF SignedIn, Got, Flow, Signing
<1>2. CASE Code("flow") # "ok"
  <2>1. Go("flow", Failing) /\ UNCHANGED <<mem, disk>>
    BY <1>2 DEF SignedIn
  <2> QED
    BY <1>1, <2>1, FailingStep
<1>3. CASE Code("flow") = "ok"
  <2>1. PICK tok, x : tok = Flow.answer.tok /\ x = Flow.account
    OBVIOUS
  <2>2. mem' = WithTokens(mem, tok) /\ disk' = Keeping(disk, tok) /\ Go("flow", After(Flow, "bind", Flow.gen))
    BY <1>3, <2>1 DEF SignedIn
  <2>3. tok \in Token
    BY <1>1, <1>3, <2>1, FlowIs DEF CallsOK
  <2>5. /\ mem' \in Mem /\ mem'.gen = mem.gen /\ mem'.token = mem.token /\ mem'.engine = mem.engine
        /\ mem'.phase = mem.phase /\ mem'.email = mem.email /\ mem'.pending = mem.pending
    BY <2>2, <2>3, FlowIs, TakesIs
  <2>4. PICK q \in State : Go("flow", q) /\ CallOK(q) /\ q.pc = "bind" /\ q.gen = Flow.gen /\ q.account = x
    <3>1. "bind" \in Quiet
      BY DEF Quiet, Stage, Asking
    <3> QED
      BY <2>1, <2>2, <3>1, FlowIs, AfterMove
  <2>6. /\ disk' \in Disk /\ disk'.fence = disk.fence /\ disk'.bound = disk.bound
        /\ disk'.email = disk.email /\ disk'.enabled = disk.enabled /\ disk'.stored = tok
    <3>1. disk' \in Disk /\ disk' = [disk EXCEPT !.stored = tok]
      BY <2>2, <2>3, FlowIs, KeepingIs DEF Keeping
    <3> QED
      BY <2>2, <2>3, <3>1, FlowIs, KeepingIs DEF Disk
  <2>7. TypeOK' /\ Stages' /\ CallsOK' /\ FenceOK'
    <3>1. StageOK("flow", q) /\ Fenced("flow", q)
      BY <2>4, FlowIs, Procs DEF StageOK, Fenced, Signing
    <3> QED
      BY <1>1, <2>4, <2>5, <2>6, <3>1, FlowIs, FlowKeepsAll DEF TypeOK
  <2>8. ASSUME ~hist'.overtaken PROVE Ours'
    <3>1. /\ Ours /\ SigningIn /\ Idling("init") /\ (\A r \in Run : Idling(r))
          /\ x = mem.email /\ mem.phase \in {"code-sent", "expired", "choose-merge"}
          /\ Installed => x = disk.bound
          /\ disk.enabled => x = disk.bound
          /\ mem.phase = "choose-merge" => ~disk.enabled /\ ~Installed
      BY <1>1, <2>1, <2>8, SignsAlone
    <3>2. Flow' = q /\ Idling("init")' /\ (\A r \in Run : Idling(r)')
      BY <2>4, <3>1, FlowMoves
    <3>3. Of(tok.s, x)
      BY <1>1, <1>3, <2>1, <3>1 DEF SigningIn
    <3>4. Held(x)'
      BY <1>1, <2>2, <2>3, <2>6, <3>3, FlowIs, HeldNew
    <3>5. Starting' /\ Choosing' /\ Leaving'
      BY <2>4, <2>5, <2>6, <3>1, <3>2 DEF Starting, Choosing, Leaving, Alone, Installed, Ends
    <3>6. SigningIn'
      BY <2>4, <2>5, <3>1, <3>2, <3>4 DEF SigningIn, Alone
    <3>7. Active'
      BY <2>4, <2>5, <2>6, <3>1, <3>2, <3>4 DEF Ours, Active, Installed
    <3>8. Enabled'
      BY <1>1, <2>5, <2>6, <3>1, <3>3 DEF Ours, Enabled, TokenOf, Of
    <3> QED
      BY <1>1, <3>1, <3>2, <3>5, <3>6, <3>7, <3>8 DEF Ours, NothingStrays
  <2> QED
    BY <1>1, <2>7, <2>8 DEF Inv, Counts
<1> QED
  BY <1>2, <1>3

LEMMA BindStep ==
    ASSUME Inv, Bind
    PROVE  Inv'
<1>1. Flow.pc = "bind" /\ UNCHANGED <<sessions, mem, fences, late, hist, used>> /\ Flow.pc \in Signing
  BY DEF Bind, Signing
<1>2. CASE ~MayBind(Flow.account)
  <2>1. Go("flow", Failing) /\ UNCHANGED disk
    BY <1>2 DEF Bind
  <2> QED
    BY <1>1, <2>1, FailingStep
<1>3. CASE MayBind(Flow.account)
  <2>1. PICK x, s : s = SessionOf(mem) /\ x = Flow.account
    OBVIOUS
  <2>2. PICK c : c = [Request("snapshot") EXCEPT !.s = s]
    OBVIOUS
  <2>3. c \in Calls /\ c.kind = "snapshot" /\ c.s = s
    <3>1. s \in Nat
      BY <2>1, FlowIs, TokensType
    <3>2. c \in Calls
      BY <2>2, <3>1, RequestIs DEF Calls
    <3> QED
      BY <2>2, <3>1, <3>2, RequestIs DEF Calls
  <2>4. PICK q \in State : /\ Go("flow", q) /\ CallOK(q) /\ q.pc = "snapshot" /\ q.gen = Flow.gen
                           /\ q.account = x /\ q.call = c /\ q.answer = None
    <3>1. "snapshot" \in Asking /\ Go("flow", Calling(Flow, "snapshot", c))
      BY <1>3, <2>1, <2>2 DEF Asking, Bind
    <3> QED
      BY <2>1, <2>3, <3>1, FlowIs, CallingMove
  <2>5. /\ disk' \in Disk /\ disk'.fence = disk.fence /\ disk'.bound = disk.bound
        /\ ~disk'.enabled /\ disk'.stored = disk.stored
    BY <1>3, FlowIs, PersistedIs DEF Bind
  <2>6. TypeOK' /\ Stages' /\ CallsOK' /\ FenceOK'
    <3>1. StageOK("flow", q) /\ Fenced("flow", q)
      BY <2>4, FlowIs, Procs DEF StageOK, Fenced, Signing
    <3> QED
      BY <1>1, <2>4, <2>5, <3>1, FlowIs, FlowKeepsAll DEF TypeOK
  <2>7. ASSUME ~hist'.overtaken PROVE Ours'
    <3>1. /\ Ours /\ SigningIn /\ Idling("init") /\ (\A r \in Run : Idling(r))
          /\ x = mem.email /\ mem.phase \in {"code-sent", "expired", "choose-merge"}
          /\ Held(x) /\ (Installed => x = disk.bound)
          /\ mem.phase = "choose-merge" => ~disk.enabled /\ ~Installed
      BY <1>1, <2>1, <2>7, SignsAlone
    <3>2. Flow' = q /\ Idling("init")' /\ (\A r \in Run : Idling(r)')
      BY <2>4, <3>1, FlowMoves
    <3>3. Held(x)' /\ Of(s, x)'
      BY <1>1, <2>1, <2>5, <3>1, HeldKept, HeldTokenIs DEF Of
    <3>4. Starting' /\ Choosing' /\ Leaving' /\ Enabled'
      BY <1>1, <2>4, <2>5, <3>1, <3>2 DEF Starting, Choosing, Leaving, Enabled, Alone, Installed, Ends
    <3>5. SigningIn'
      <4>1. disk'.bound \in {None, x}
        BY <1>3, <2>1, <2>5 DEF MayBind
      <4> QED
        BY <1>1, <2>3, <2>4, <2>5, <3>1, <3>2, <3>3, <4>1 DEF SigningIn, Alone
    <3>6. Active'
      BY <1>1, <2>4, <2>5, <3>1, <3>2, <3>3 DEF Ours, Active, Installed
    <3> QED
      BY <1>1, <3>1, <3>2, <3>4, <3>5, <3>6 DEF Ours, NothingStrays
  <2> QED
    BY <1>1, <2>6, <2>7 DEF Inv, Counts
<1> QED
  BY <1>2, <1>3

LEMMA FetchedStep ==
    ASSUME Inv, Fetched
    PROVE  Inv'
<1>1. /\ Flow.pc = "snapshot" /\ Flow.answer # None /\ UNCHANGED <<sessions, disk, late, hist, used>>
      /\ Flow.pc \in Signing
  BY DEF Fetched, Got, Flow, Signing
<1>2. CASE Code("flow") # "ok"
  <2>1. Go("flow", Failing) /\ UNCHANGED <<mem, fences>>
    BY <1>2 DEF Fetched
  <2> QED
    BY <1>1, <2>1, FailingStep
<1>3. CASE Code("flow") = "ok"
  <2>0. PICK g \in Nat : g = mem.gen + 1
    BY FlowIs
  <2>1. PICK s, x : g = mem.gen + 1 /\ s = Flow.call.s /\ x = Flow.account
    BY <2>0
  <2>2. s \in DOMAIN sessions /\ s # 0
    BY <1>1, <1>3, <2>1, FlowIs DEF CallsOK, TypeOK
  <2>3. PICK y : y = sessions[s].account
    OBVIOUS
  <2>4. y \in Account
    <3>1. sessions[s] \in Session
      BY <2>2, FlowIs DEF TypeOK
    <3> QED
      BY <2>3, <3>1 DEF Session
  <2>5. PICK r : r = [Flow EXCEPT !.snap = y]
    OBVIOUS
  <2>6. r \in State /\ r.snap = y /\ r.account = x
    <3>1. r \in State
      BY <2>4, <2>5, FlowIs DEF State
    <3> QED
      BY <2>1, <2>5, <3>1, FlowIs DEF State
  <2>7. mem' = Begun(mem) /\ SetFence /\ Go("flow", After(r, "fence", g))
    BY <1>3, <2>1, <2>3, <2>5 DEF Fetched
  <2>8. PICK q \in State : /\ Go("flow", q) /\ CallOK(q) /\ q.pc = "fence" /\ q.gen = g
                           /\ q.account = x /\ q.snap = y
    <3>1. "fence" \in Quiet
      BY DEF Quiet, Stage, Asking
    <3> QED
      BY <2>1, <2>6, <2>7, <3>1, FlowIs, AfterMove
  <2>9. /\ mem' \in Mem /\ mem'.gen = g /\ mem'.token = g /\ mem'.engine = 0
        /\ mem'.phase = mem.phase /\ mem'.email = mem.email
        /\ mem'.pending = mem.pending /\ mem'.access = mem.access /\ mem'.refresh = mem.refresh
    <3>1. mem \in Mem /\ mem' = Begun(mem)
      BY <2>7, FlowIs
    <3> QED
      BY <2>1, <3>1, BegunIs
  <2>10. FenceOK' /\ fences' \in Seq([set: BOOLEAN, gen: Nat, token: Nat])
    BY <1>1, <2>1, <2>7, <2>8, <2>9, FlowIs, FenceBegun
  <2>11. Stages' /\ CallsOK'
    BY <1>1, <2>8, FlowIs, StagesMove, CallsMove, Procs DEF StageOK, Signing
  <2>12. TypeOK'
    <3>1. proc' \in [Proc -> State]
      BY <2>8, FlowIs, GoIs
    <3> QED
      BY <1>1, <2>9, <2>10, <3>1, FlowIs DEF TypeOK
  <2>13. ASSUME ~hist'.overtaken PROVE Ours'
    <3>1. /\ Ours /\ SigningIn /\ Idling("init") /\ (\A r1 \in Run : Idling(r1))
          /\ x = mem.email /\ mem.phase \in {"code-sent", "expired", "choose-merge"} /\ Held(x)
          /\ Of(s, x) /\ disk.bound \in {None, x} /\ ~disk.enabled
      BY <1>1, <2>1, <2>13, SignsAlone DEF SigningIn
    <3>2. Flow' = q /\ Idling("init")' /\ (\A r1 \in Run : Idling(r1)')
      BY <2>8, <3>1, FlowMoves
    <3>3. Held(x)'
      BY <1>1, <2>9, <3>1, HeldKept
    <3>4. y = x
      BY <2>2, <2>3, <3>1 DEF Of
    <3>5. ~Installed'
      <4>1. g # 0
        BY <2>1, FlowIs
      <4> QED
        BY <2>9, <4>1 DEF Installed
    <3>6. Starting' /\ Choosing' /\ Leaving' /\ Active' /\ Enabled'
      BY <1>1, <2>8, <2>9, <3>1, <3>2, <3>5 DEF Starting, Choosing, Leaving, Active, Enabled, Alone, Ends
    <3>7. SigningIn'
      BY <1>1, <2>8, <2>9, <3>1, <3>2, <3>3, <3>4, <3>5 DEF SigningIn, Alone
    <3> QED
      BY <1>1, <3>1, <3>2, <3>6, <3>7 DEF Ours, NothingStrays
  <2> QED
    BY <1>1, <2>10, <2>11, <2>12, <2>13 DEF Inv, Counts
<1> QED
  BY <1>2, <1>3

LEMMA ChoiceStep ==
    ASSUME Inv, Choice
    PROVE  Inv'
<1>1. Flow.pc = "fence" /\ UNCHANGED <<sessions, disk, fences, late, hist, used>> /\ Flow.pc \in Signing
  BY DEF Choice, Signing
<1>2. CASE ~IsCurrent("flow")
  <2>1. Go("flow", Failing) /\ UNCHANGED mem
    BY <1>2 DEF Choice
  <2> QED
    BY <1>1, <2>1, FailingStep
<1>3. CASE IsCurrent("flow") /\ Go("flow", [Flow EXCEPT !.pc = "write"]) /\ mem' = mem
  <2>1. PICK x : x = Flow.account
    OBVIOUS
  <2>2. PICK q : q = [Flow EXCEPT !.pc = "write"]
    OBVIOUS
  <2>3. /\ q \in State /\ q.pc = "write" /\ q.gen = Flow.gen /\ q.account = x /\ q.snap = Flow.snap
        /\ q.call = Flow.call /\ q.answer = Flow.answer /\ Go("flow", q)
    <3>1. "write" \in Stage
      BY DEF Stage
    <3> QED
      BY <1>3, <2>1, <2>2, <3>1, FlowIs, StagedIs
  <2>4. CallOK(q)
    <3>1. Flow.call = None
      BY <1>1, FlowIs DEF CallsOK, Asking
    <3> QED
      BY <2>3, <3>1 DEF CallOK, Asking
  <2>5. mem.token = mem.gen
    BY <1>1, <1>3, FlowIs DEF FenceOK
  <2>6. TypeOK' /\ Stages' /\ CallsOK' /\ FenceOK'
    <3>1. StageOK("flow", q) /\ Fenced("flow", q)
      BY <2>3, <2>5, FlowIs, Procs DEF StageOK, Fenced, Signing
    <3> QED
      BY <1>1, <1>3, <2>3, <2>4, <3>1, FlowIs, FlowKeepsAll DEF TypeOK
  <2>7. ASSUME ~hist'.overtaken PROVE Ours'
    <3>1. /\ Ours /\ SigningIn /\ Idling("init") /\ (\A r1 \in Run : Idling(r1))
          /\ x = mem.email /\ mem.phase \in {"code-sent", "expired", "choose-merge"} /\ Held(x)
          /\ Flow.snap = x /\ disk.bound \in {None, x} /\ ~disk.enabled /\ ~Installed
      BY <1>1, <2>1, <2>7, SignsAlone DEF SigningIn
    <3>2. Flow' = q /\ Idling("init")' /\ (\A r1 \in Run : Idling(r1)')
      BY <2>3, <3>1, FlowMoves
    <3>3. Held(x)' /\ ~Installed'
      BY <1>1, <1>3, <3>1, HeldKept DEF Installed
    <3>4. Starting' /\ Choosing' /\ Leaving' /\ Active' /\ Enabled'
      BY <1>1, <1>3, <2>3, <3>1, <3>2, <3>3 DEF Starting, Choosing, Leaving, Active, Enabled, Alone, Ends
    <3>5. SigningIn'
      BY <1>1, <1>3, <2>3, <3>1, <3>2, <3>3 DEF SigningIn, Alone
    <3> QED
      BY <1>1, <3>1, <3>2, <3>4, <3>5 DEF Ours, NothingStrays
  <2> QED
    BY <1>1, <2>6, <2>7 DEF Inv, Counts
<1>4. CASE /\ IsCurrent("flow") /\ Stop("flow")
           /\ mem' = [mem EXCEPT !.phase = "choose-merge", !.snap = Flow.snap, !.pending = Flow.gen]
  <2>1. PICK x, y, g : x = Flow.account /\ y = Flow.snap /\ g = Flow.gen
    OBVIOUS
  <2>2. /\ mem' \in Mem /\ mem'.gen = mem.gen /\ mem'.token = mem.token /\ mem'.engine = mem.engine
        /\ mem'.phase = "choose-merge" /\ mem'.snap = y /\ mem'.pending = g
        /\ mem'.email = mem.email /\ mem'.access = mem.access /\ mem'.refresh = mem.refresh
    <3>1. mem \in Mem /\ y \in Account \cup {None} /\ g \in Nat
      BY <2>1, FlowIs DEF State
    <3>2. mem' = [mem EXCEPT !.phase = "choose-merge", !.snap = y, !.pending = g]
      BY <1>4, <2>1
    <3>3. mem' \in Mem
      BY <3>1, <3>2 DEF Mem, Phases
    <3> QED
      BY <3>1, <3>2, <3>3 DEF Mem
  <2>3. mem.token = mem.gen /\ g = mem.gen
    BY <1>1, <1>4, <2>1, FlowIs DEF FenceOK, IsCurrent
  <2>4. TypeOK' /\ Stages' /\ CallsOK' /\ FenceOK'
    <3>1. CallOK(Idle) /\ StageOK("flow", Idle) /\ Fenced("flow", Idle) /\ Idle \in State /\ Go("flow", Idle)
      BY <1>4, FlowIs, IdleIs, IdleMoves DEF Stop
    <3>2. mem'.pending <= mem.gen /\ mem.gen \in Nat
      BY <2>1, <2>2, FlowIs
    <3>3. mem'.engine = mem.gen => mem.token = mem.gen /\ disk.fence = mem.gen
      BY <2>2, FlowIs DEF FenceOK, Installed
    <3> QED
      BY <1>1, <2>2, <2>3, <3>1, <3>2, <3>3, FlowIs, FlowKeeps DEF TypeOK
  <2>5. ASSUME ~hist'.overtaken PROVE Ours'
    <3>1. /\ Ours /\ SigningIn /\ Idling("init") /\ (\A r1 \in Run : Idling(r1))
          /\ x = mem.email /\ Held(x)
          /\ y = x /\ disk.bound \in {None, x} /\ ~disk.enabled /\ ~Installed
      BY <1>1, <2>1, <2>5, SignsAlone DEF SigningIn
    <3>2. Flow'.pc = "idle" /\ Idling("init")' /\ (\A r1 \in Run : Idling(r1)')
      BY <1>4, <3>1, FlowMoves, IdleIs DEF Stop
    <3>3. Held(x)' /\ ~Installed'
      BY <1>1, <2>2, <3>1, HeldKept DEF Installed
    <3>4. Choosing'
      BY <1>1, <2>2, <3>1, <3>2, <3>3 DEF Choosing, Alone
    <3>5. Starting' /\ SigningIn' /\ Leaving' /\ Active' /\ Enabled'
      BY <1>1, <2>2, <3>1, <3>2, <3>3 DEF Starting, SigningIn, Leaving, Active, Enabled, Signing, Ends
    <3> QED
      BY <1>1, <3>1, <3>2, <3>4, <3>5 DEF Ours, NothingStrays
  <2> QED
    BY <1>1, <2>4, <2>5 DEF Inv, Counts
<1> QED
  BY <1>2, <1>3, <1>4 DEF Choice

\* A sign-in that fails is undone; a merge that fails leaves its tokens.
LEMMA GiveUpStep ==
    ASSUME Inv, Flow.pc \in {"write", "again"}, GiveUp,
           UNCHANGED <<sessions, disk, fences, late, hist, used>>
    PROVE  Inv'
<1>1. CASE Flow.why = "login"
  BY <1>1, FailingStep DEF GiveUp, Signing
<1>2. CASE Flow.why # "login"
  <2>1. mem' = [mem EXCEPT !.phase = "disconnected"] /\ Go("flow", Idle)
    BY <1>2 DEF GiveUp, Stop
  <2>2. /\ mem' \in Mem /\ mem'.gen = mem.gen /\ mem'.token = mem.token /\ mem'.engine = mem.engine
        /\ mem'.phase = "disconnected" /\ mem'.pending = mem.pending
    <3>1. mem' \in Mem
      BY <2>1, FlowIs DEF Mem, Phases
    <3> QED
      BY <2>1, <3>1, FlowIs DEF Mem
  <2>3. TypeOK' /\ Stages' /\ CallsOK' /\ FenceOK'
    <3>1. CallOK(Idle) /\ StageOK("flow", Idle) /\ Fenced("flow", Idle) /\ Idle \in State
      BY FlowIs, IdleIs, IdleMoves
    <3> QED
      BY <2>1, <2>2, <3>1, FlowIs, FlowKeepsAll DEF TypeOK
  <2>4. ASSUME ~hist'.overtaken PROVE Ours'
    <3>1. /\ Ours /\ Idling("init") /\ (\A r1 \in Run : Idling(r1)) /\ ~disk.enabled /\ ~Installed
      BY <2>4, SignsAlone DEF SigningIn, Signing
    <3>2. Flow'.pc = "idle" /\ Idling("init")' /\ (\A r1 \in Run : Idling(r1)')
      BY <2>1, <3>1, FlowMoves, IdleIs
    <3>3. ~Installed'
      BY <2>2, <3>1 DEF Installed
    <3>4. Starting' /\ SigningIn' /\ Choosing' /\ Leaving' /\ Active' /\ Enabled'
      BY <2>1, <2>2, <3>1, <3>2, <3>3
         DEF Starting, SigningIn, Choosing, Leaving, Active, Enabled, Signing, Ends
    <3> QED
      BY <2>1, <3>1, <3>2, <3>4 DEF Ours, NothingStrays
  <2> QED
    BY <2>3, <2>4 DEF Inv, Counts
<1> QED
  BY <1>1, <1>2

\* The data are bound to the account whose snapshot they take.
LEMMA InitializeCloudStep ==
    ASSUME Inv, InitializeCloud
    PROVE  Inv'
<1>1. Flow.pc = "write" /\ UNCHANGED <<sessions, fences, late, used>> /\ Flow.pc \in Signing
  BY DEF InitializeCloud, Signing
<1>2. CASE InFence("flow")
  <2>1. PICK x \in Account \cup {None} : x = Flow.account
    BY FlowIs DEF State
  <2>2. disk' = [disk EXCEPT !.bound = x] /\ Go("flow", [Flow EXCEPT !.pc = "activate"]) /\ mem' = mem
    BY <1>2, <2>1 DEF InitializeCloud
  <2>3. /\ disk' \in Disk /\ disk'.bound = x /\ disk'.fence = disk.fence /\ disk'.stored = disk.stored
        /\ disk'.enabled = disk.enabled
    <3>1. disk' \in Disk
      BY <2>2, FlowIs DEF Disk
    <3> QED
      BY <2>2, <3>1, FlowIs DEF Disk
  <2>4. /\ hist' \in [strays: SUBSET BOOLEAN, overtaken: BOOLEAN] /\ hist'.overtaken = hist.overtaken
        /\ hist' = hist \/ Flow.snap # x \/ disk.bound \notin {None, x}
    <3>1. hist \in [strays: SUBSET BOOLEAN, overtaken: BOOLEAN]
      BY FlowIs DEF TypeOK
    <3>2. PICK y \in SUBSET BOOLEAN : y = hist.strays \cup {hist.overtaken}
      BY <3>1
    <3>3. \/ hist' = hist
          \/ hist' = [hist EXCEPT !.strays = y] /\ (Flow.snap # x \/ disk.bound \notin {None, x})
      BY <1>2, <2>1, <3>2 DEF InitializeCloud
    <3> QED
      BY <3>1, <3>3
  <2>5. PICK q : q = [Flow EXCEPT !.pc = "activate"]
    OBVIOUS
  <2>6. /\ q \in State /\ q.pc = "activate" /\ q.gen = Flow.gen /\ q.account = x
        /\ q.call = Flow.call /\ q.answer = Flow.answer /\ Go("flow", q)
    <3>1. "activate" \in Stage
      BY DEF Stage
    <3> QED
      BY <2>1, <2>2, <2>5, <3>1, FlowIs, StagedIs
  <2>7. CallOK(q)
    <3>1. Flow.call = None
      BY <1>1, FlowIs DEF CallsOK, Asking
    <3> QED
      BY <2>6, <3>1 DEF CallOK, Asking
  <2>8. Fenced("flow", q) /\ StageOK("flow", q)
    <3>1. q.gen = mem.gen => mem.token = mem.gen /\ disk.fence = mem.gen
      BY <1>1, <1>2, <2>6, FlowIs DEF FenceOK, InFence, IsCurrent
    <3> QED
      BY <2>6, <3>1, FlowIs, Procs DEF Fenced, StageOK, Signing
  <2>9. TypeOK' /\ Stages' /\ CallsOK' /\ FenceOK'
    BY <1>1, <2>2, <2>3, <2>4, <2>6, <2>7, <2>8, FlowIs, FlowKeepsAll
  <2>10. ASSUME ~hist'.overtaken PROVE Ours'
    <3>1. /\ Ours /\ SigningIn /\ Idling("init") /\ (\A r1 \in Run : Idling(r1))
          /\ x = mem.email /\ mem.phase \in {"code-sent", "expired", "choose-merge"} /\ Held(x)
          /\ Flow.snap = x /\ disk.bound \in {None, x} /\ ~disk.enabled /\ ~Installed
      BY <1>1, <2>1, <2>4, <2>10, SignsAlone DEF SigningIn
    <3>2. Flow' = q /\ Idling("init")' /\ (\A r1 \in Run : Idling(r1)')
      BY <2>6, <3>1, FlowMoves
    <3>3. Held(x)' /\ ~Installed'
      BY <1>1, <2>2, <2>3, <3>1, HeldKept DEF Installed
    <3>4. Starting' /\ Choosing' /\ Leaving' /\ Active' /\ Enabled'
      BY <2>2, <2>3, <2>6, <3>1, <3>2, <3>3 DEF Starting, Choosing, Leaving, Active, Enabled, Alone, Ends
    <3>5. SigningIn'
      BY <2>2, <2>3, <2>6, <3>1, <3>2, <3>3 DEF SigningIn, Alone
    <3>6. NothingStrays'
      BY <2>4, <3>1 DEF Ours, NothingStrays
    <3> QED
      BY <3>2, <3>4, <3>5, <3>6 DEF Ours
  <2> QED
    BY <1>1, <2>9, <2>10 DEF Inv, Counts
<1>3. CASE ~InFence("flow")
  BY <1>1, <1>3, GiveUpStep DEF InitializeCloud
<1> QED
  BY <1>2, <1>3

LEMMA ActivateFlowStep ==
    ASSUME Inv, ActivateFlow
    PROVE  Inv'
<1>1. /\ Flow.pc \in {"activate", "again"} /\ UNCHANGED <<sessions, late, hist, used>> /\ Flow.pc \in Signing
      /\ Flow.pc = "again" => Passed("flow")
  BY DEF ActivateFlow, Signing
<1>2. CASE IsCurrent("flow")
  <2>1. Activate("flow") /\ fences' = fences
    BY <1>2 DEF ActivateFlow
  <2>2. /\ mem' \in Mem /\ mem'.phase = "connected" /\ mem'.engine = mem.gen
        /\ mem'.pending = 0 /\ mem'.gen = mem.gen /\ mem'.token = mem.token
        /\ mem'.email = mem.email /\ mem'.access = mem.access /\ mem'.refresh = mem.refresh
        /\ disk' \in Disk /\ disk'.stored = disk.stored /\ disk'.fence = disk.fence
        /\ disk'.bound = disk.bound /\ disk'.email = mem.email /\ disk'.enabled /\ Go("flow", Idle)
    BY <1>2, <2>1, FlowIs, ActivateIs
  <2>3. mem.token = mem.gen /\ disk.fence = mem.gen
    <3>1. mem.token = mem.gen
      BY <1>1, <1>2, FlowIs DEF FenceOK
    <3>2. CASE Flow.pc = "activate"
      BY <1>2, <3>1, <3>2, FlowIs DEF FenceOK
    <3>3. CASE Flow.pc = "again"
      <4>1. \A i \in DOMAIN fences : fences[i].gen # mem.gen
        BY <1>1, <1>2, <3>3 DEF Passed, IsCurrent
      <4> QED
        BY <3>1, <4>1, FlowIs DEF FenceOK
    <3> QED
      BY <1>1, <3>1, <3>2, <3>3
  <2>4. TypeOK' /\ Stages' /\ CallsOK' /\ FenceOK'
    <3>1. CallOK(Idle) /\ StageOK("flow", Idle) /\ Fenced("flow", Idle) /\ Idle \in State
      BY FlowIs, IdleIs, IdleMoves
    <3>2. mem'.pending <= mem.gen
      BY <2>2, FlowIs
    <3> QED
      BY <1>1, <2>1, <2>2, <2>3, <3>1, <3>2, FlowIs, FlowKeeps DEF TypeOK
  <2>5. ASSUME ~hist'.overtaken PROVE Ours'
    <3>1. PICK a : a = disk.bound
      OBVIOUS
    <3>2. /\ Ours /\ Idling("init") /\ (\A r1 \in Run : Idling(r1)) /\ mem.email = a /\ Held(a)
      BY <1>1, <2>5, <3>1, SignsAlone DEF SigningIn
    <3>3. Flow'.pc = "idle" /\ Idling("init")' /\ (\A r1 \in Run : Idling(r1)')
      BY <2>2, <3>2, FlowMoves, IdleIs
    <3>4. Held(a)'
      BY <1>1, <2>2, <3>2, HeldKept
    <3>5. Starting' /\ SigningIn' /\ Choosing' /\ Leaving'
      BY <2>2, <3>3 DEF Starting, SigningIn, Choosing, Leaving, Signing, Ends
    <3>6. Active' /\ Enabled'
      BY <2>2, <3>1, <3>2, <3>3, <3>4 DEF Active, Enabled, Held, TokenOf, Of
    <3> QED
      BY <1>1, <3>2, <3>3, <3>5, <3>6 DEF Ours, NothingStrays
  <2> QED
    BY <1>1, <2>4, <2>5 DEF Inv, Counts
<1>3. CASE ~IsCurrent("flow") /\ Flow.pc = "again"
  BY <1>1, <1>3, GiveUpStep DEF ActivateFlow
<1>4. CASE ~IsCurrent("flow") /\ Flow.pc = "activate"
  <2>1. PICK g \in Nat : g = mem.gen + 1
    BY FlowIs
  <2>2. PICK x : x = Flow.account
    OBVIOUS
  <2>3. mem' = Begun(mem) /\ SetFence /\ disk' = disk /\ Go("flow", After(Flow, "again", g))
    BY <1>4, <2>1 DEF ActivateFlow
  <2>4. PICK q \in State : Go("flow", q) /\ CallOK(q) /\ q.pc = "again" /\ q.gen = g /\ q.account = x
    <3>1. "again" \in Quiet
      BY DEF Quiet, Stage, Asking
    <3> QED
      BY <2>1, <2>2, <2>3, <3>1, FlowIs, AfterMove
  <2>5. /\ mem' \in Mem /\ mem'.gen = g /\ mem'.token = g /\ mem'.engine = 0
        /\ mem'.phase = mem.phase /\ mem'.email = mem.email
        /\ mem'.pending = mem.pending /\ mem'.access = mem.access /\ mem'.refresh = mem.refresh
    <3>1. mem \in Mem /\ mem' = Begun(mem)
      BY <2>3, FlowIs
    <3> QED
      BY <2>1, <3>1, BegunIs
  <2>6. FenceOK' /\ fences' \in Seq([set: BOOLEAN, gen: Nat, token: Nat])
    BY <2>1, <2>3, <2>4, <2>5, FlowIs, FenceBegun
  <2>7. Stages' /\ CallsOK'
    BY <1>1, <2>4, FlowIs, StagesMove, CallsMove, Procs DEF StageOK, Signing
  <2>8. TypeOK'
    <3>1. proc' \in [Proc -> State]
      BY <2>4, FlowIs, GoIs
    <3> QED
      BY <1>1, <2>3, <2>5, <2>6, <3>1, FlowIs DEF TypeOK
  <2>9. ASSUME ~hist'.overtaken PROVE Ours'
    <3>1. /\ Ours /\ SigningIn /\ Idling("init") /\ (\A r1 \in Run : Idling(r1))
          /\ x = mem.email /\ mem.phase \in {"code-sent", "expired", "choose-merge"} /\ Held(x)
          /\ disk.bound = x /\ ~disk.enabled
      BY <1>1, <1>4, <2>2, <2>9, SignsAlone DEF SigningIn
    <3>2. Flow' = q /\ Idling("init")' /\ (\A r1 \in Run : Idling(r1)')
      BY <2>4, <3>1, FlowMoves
    <3>3. Held(x)'
      BY <1>1, <2>3, <2>5, <3>1, HeldKept
    <3>4. ~Installed'
      <4>1. g # 0
        BY <2>1, FlowIs
      <4> QED
        BY <2>5, <4>1 DEF Installed
    <3>5. Starting' /\ Choosing' /\ Leaving' /\ Active' /\ Enabled'
      BY <2>3, <2>4, <2>5, <3>1, <3>2, <3>4 DEF Starting, Choosing, Leaving, Active, Enabled, Alone, Ends
    <3>6. SigningIn'
      BY <2>3, <2>4, <2>5, <3>1, <3>2, <3>3, <3>4 DEF SigningIn, Alone
    <3> QED
      BY <1>1, <3>1, <3>2, <3>5, <3>6 DEF Ours, NothingStrays
  <2> QED
    BY <1>1, <2>6, <2>7, <2>8, <2>9 DEF Inv, Counts
<1> QED
  BY <1>1, <1>2, <1>3, <1>4

----------------------------------------------------------------------------
(* Leaving. *)

\* The session is invalidated: a run that writes in it loses its fence.
LEMMA LeaveStep ==
    ASSUME Inv, NEW why \in {"fail", "cancel", "out", "clear"}, NEW phase \in Phases, Leave(why, phase),
           \/ why = "fail" /\ Flow.pc = "fail" /\ phase = mem.phase
           \/ why = "cancel" /\ Flow.pc = "idle" /\ mem.phase = "choose-merge" /\ phase = "disconnected"
           \/ why \in {"out", "clear"} /\ Flow.pc = "idle" /\ mem.phase = "connected" /\ phase = mem.phase
    PROVE  Inv'
<1>1. UNCHANGED <<sessions, disk, late, hist, used>> /\ ClearFence
  BY DEF Leave
<1>2. PICK g \in Nat : g = mem.gen + 1
  BY FlowIs
<1>3. PICK d : d = Dropped(mem)
  OBVIOUS
<1>4. d \in Mem /\ d.gen = g /\ d.token = 0 /\ d.engine = 0 /\ d.email = mem.email
  BY <1>2, <1>3, FlowIs, DroppedIs
<1>5. mem' = [d EXCEPT !.phase = phase, !.snap = None, !.pending = 0]
  BY <1>3 DEF Leave
<1>6. /\ mem' \in Mem /\ mem'.gen = g /\ mem'.token = 0 /\ mem'.engine = 0 /\ mem'.email = mem.email
      /\ mem'.phase = phase /\ mem'.snap = None /\ mem'.pending = 0
  <2>1. mem' \in Mem
    BY <1>4, <1>5 DEF Mem
  <2> QED
    BY <1>4, <1>5, <2>1 DEF Mem
<1>7. PICK r \in State : r = [Flow EXCEPT !.why = why] /\ r.why = why
  <2>1. PICK r : r = [Flow EXCEPT !.why = why]
    OBVIOUS
  <2>2. r \in State
    BY <2>1, FlowIs DEF State
  <2> QED
    BY <2>1, <2>2, FlowIs DEF State
<1>8. PICK q \in State : Go("flow", q) /\ CallOK(q) /\ q.pc = "leave" /\ q.gen = g /\ q.why = why
  <2>1. "leave" \in Quiet /\ Go("flow", After(r, "leave", g))
    BY <1>2, <1>7 DEF Quiet, Stage, Asking, Leave
  <2>2. r.why = why /\ TypeOK /\ "flow" \in Proc
    BY <1>7, FlowIs
  <2> QED
    BY <2>1, <2>2, AfterMove
<1>9. Stages' /\ CallsOK'
  <2>1. StageOK("flow", q)
    BY <1>8, Procs DEF StageOK, Ends
  <2> QED
    BY <1>1, <1>8, <2>1, FlowIs, StagesMove, CallsMove
<1>10. /\ FenceOK' /\ fences' \in Seq([set: BOOLEAN, gen: Nat, token: Nat])
       /\ \E i \in DOMAIN fences' : /\ ~fences'[i].set /\ fences'[i].gen = mem'.gen
                                    /\ fences'[i].token = mem.token
  BY <1>1, <1>2, <1>6, <1>8, FlowIs, FenceDropped
<1>11. TypeOK'
  <2>1. proc' \in [Proc -> State]
    BY <1>8, FlowIs, GoIs
  <2> QED
    BY <1>1, <1>6, <1>10, <2>1, FlowIs DEF TypeOK
<1>12. ASSUME ~hist'.overtaken PROVE Ours'
  <2>1. Ours
    BY <1>1, <1>12 DEF Inv
  <2>2. /\ Idling("init")
        /\ why \in {"fail", "cancel"} => Alone
        /\ \A p \in Run : ~Idling(p) => Running(p)
    BY <2>1 DEF Ours, Leaving, Choosing, Starting, Alone
  <2>3. /\ Flow' = q /\ Idling("init")'
        /\ \A p \in Run : proc'[p] = proc[p] /\ (Idling(p)' <=> Idling(p))
    BY <1>8, <2>2, FlowMoves
  <2>4. ~Installed' /\ IsCurrent("flow")'
    <3>1. g # 0
      BY <1>2, FlowIs
    <3> QED
      BY <1>6, <1>8, <2>3, <3>1 DEF Installed, IsCurrent, Flow
  <2>5. Starting' /\ SigningIn' /\ Active'
    BY <1>8, <2>3, <2>4 DEF Starting, SigningIn, Active, Signing
  <2>6. why \in {"fail", "cancel"} => Alone'
    BY <2>2, <2>3 DEF Alone
  <2>7. Choosing'
    BY <1>1, <1>6, <1>8, <2>1, <2>3, <2>4, <2>6 DEF Ours, Choosing
  <2>8. Leaving'
    BY <1>8, <2>3, <2>4, <2>6 DEF Leaving, Ends
  <2>9. Enabled'
    BY <1>1, <1>6, <2>1 DEF Ours, Enabled, TokenOf, Of
  <2>10. ASSUME NEW p \in Run, ~Idling(p)' PROVE Running(p)'
    <3>1. Running(p) /\ proc'[p] = proc[p] /\ p \in Proc
      BY <2>2, <2>3, <2>10, Procs
    <3>2. why \in {"out", "clear"} /\ Flow.pc = "idle" /\ mem.phase = "connected" /\ mem'.phase = "connected"
      BY <1>6, <2>2, <2>3, <2>10 DEF Alone
    <3>3. ~IsCurrent(p)'
      <4>1. proc[p].gen \in Nat /\ proc[p].gen <= mem.gen
        BY <3>1, FlowIs DEF FenceOK, TypeOK, State
      <4>2. proc[p].gen # g
        BY <1>2, <4>1, FlowIs
      <4> QED
        BY <1>6, <3>1, <4>2 DEF IsCurrent
    <3>4. PICK a : a = disk.bound
      OBVIOUS
    <3>5. Carries(p, a) => Carries(p, a)'
      BY <1>1, <3>1, CarriesKept
    <3>6. proc[p].pc \in Going => mem.token = disk.fence
      <4>1. proc[p].pc \in Going => Installed
        BY <3>1, <3>2 DEF Running, Ends
      <4> QED
        BY <4>1, FlowIs DEF FenceOK
    <3>7. proc[p].pc \in Going =>
             \E i \in DOMAIN fences' : /\ ~fences'[i].set /\ fences'[i].gen = mem'.gen
                                       /\ fences'[i].token = disk'.fence
      BY <1>1, <1>10, <3>6
    <3>8. disk'.enabled \/ IsCurrent(p)' \/ InFence(p)' => Carries(p, disk.bound)'
      BY <1>1, <3>1, <3>3, <3>4, <3>5 DEF Running, InFence
    <3> QED
      BY <1>8, <2>3, <2>4, <2>10, <3>1, <3>2, <3>3, <3>7, <3>8 DEF Running, Ends
  <2> QED
    BY <1>1, <2>1, <2>5, <2>7, <2>8, <2>9, <2>10 DEF Ours, NothingStrays
<1> QED
  BY <1>1, <1>9, <1>10, <1>11, <1>12 DEF Inv, Counts

LEMMA FailStep ==
    ASSUME Inv, Fail
    PROVE  Inv'
<1>1. PICK x \in Phases : x = mem.phase
  BY FlowIs DEF Mem
<1> QED
  BY <1>1, LeaveStep DEF Fail

LEMMA CancelStep ==
    ASSUME Inv, Cancel
    PROVE  Inv'
<1>1. "disconnected" \in Phases
  BY DEF Phases
<1> QED
  BY <1>1, LeaveStep DEF Cancel, Free

LEMMA SignOutStep ==
    ASSUME Inv, SignOut
    PROVE  Inv'
<1>1. PICK x \in Phases : x = mem.phase
  BY FlowIs DEF Mem
<1>2. PICK why \in {"out", "clear"} : Leave(why, x)
  BY <1>1 DEF SignOut
<1> QED
  BY <1>1, <1>2, LeaveStep DEF SignOut, Free

\* The service is told.
LEMMA LogoutStep ==
    ASSUME Inv, Logout
    PROVE  Inv'
<1>1. /\ UNCHANGED <<sessions, disk, mem, fences, late, hist, used>>
      /\ Flow.pc = "leave" /\ Passed("flow")
  BY DEF Logout
<1>2. PICK s \in Nat : s = SessionOf(mem)
  BY FlowIs, TokensType
<1>3. PICK c : c = [Request("logout") EXCEPT !.s = s]
  OBVIOUS
<1>4. c \in Calls /\ c.kind = "logout"
  <2>1. c \in Calls
    BY <1>3, RequestIs DEF Calls
  <2> QED
    BY <1>3, <2>1, RequestIs DEF Calls
<1>5. PICK q \in State : /\ Go("flow", q) /\ CallOK(q) /\ q.pc = "logout" /\ q.gen = Flow.gen
                         /\ q.why = Flow.why
  <2>1. "logout" \in Asking /\ Go("flow", Calling(Flow, "logout", c))
    BY <1>2, <1>3 DEF Asking, Logout
  <2> QED
    BY <1>4, <2>1, FlowIs, CallingMove
<1>6. TypeOK' /\ Stages' /\ CallsOK' /\ FenceOK'
  <2>1. q.gen = mem.gen => \A i \in DOMAIN fences : fences[i].gen # mem.gen
    BY <1>1, <1>5, FlowIs DEF Passed
  <2>2. StageOK("flow", q) /\ Fenced("flow", q)
    BY <1>5, <2>1, FlowIs, Procs DEF StageOK, Fenced, Ends
  <2> QED
    BY <1>1, <1>5, <2>2, FlowIs, FlowKeepsAll DEF TypeOK
<1>7. ASSUME ~hist'.overtaken PROVE Ours'
  <2>1. Ours
    BY <1>1, <1>7 DEF Inv
  <2>2. Idling("init") /\ ~Installed /\ ~Installed' /\ (Flow.why \in {"fail", "cancel"} => Alone)
    BY <1>1, <2>1 DEF Ours, Leaving, Ends, Installed
  <2>3. /\ Flow' = q /\ Idling("init")'
        /\ \A p \in Run : proc'[p] = proc[p] /\ (Idling(p)' <=> Idling(p))
    BY <1>5, <2>2, FlowMoves
  <2>4. (Alone' <=> Alone) /\ (IsCurrent("flow")' <=> IsCurrent("flow"))
    BY <1>1, <1>5, <2>2, <2>3 DEF Alone, IsCurrent, Flow
  <2>5. Starting' /\ SigningIn' /\ Active'
    BY <1>5, <2>2, <2>3 DEF Starting, SigningIn, Active, Signing
  <2>6. Choosing' /\ Leaving'
    BY <1>1, <1>5, <2>1, <2>2, <2>3, <2>4 DEF Ours, Choosing, Leaving, Ends
  <2>7. Enabled'
    BY <1>1, <2>1 DEF Ours, Enabled, TokenOf, Of
  <2>8. ASSUME NEW p \in Run, ~Idling(p)' PROVE Running(p)'
    <3>1. Running(p) /\ proc'[p] = proc[p] /\ p \in Proc
      BY <2>1, <2>3, <2>8, Procs DEF Ours
    <3>2. PICK a : a = disk.bound
      OBVIOUS
    <3>3. Carries(p, a) => Carries(p, a)'
      BY <1>1, <3>1, CarriesKept
    <3> QED
      BY <1>1, <1>5, <2>2, <2>3, <3>1, <3>2, <3>3 DEF Running, IsCurrent, InFence, Ends
  <2> QED
    BY <1>1, <2>1, <2>5, <2>6, <2>7, <2>8 DEF Ours, NothingStrays
<1> QED
  BY <1>1, <1>6, <1>7 DEF Inv, Counts

\* What is forgotten at the end. The fence that a run may have kept is gone.
LEMMA LoggedOutStep ==
    ASSUME Inv, LoggedOut
    PROVE  Inv'
<1>1. UNCHANGED <<sessions, fences, late, hist, used>> /\ Flow.pc = "logout" /\ Go("flow", Idle)
  BY DEF LoggedOut, Got, Flow, Stop
<1>2. PICK m : m = WithoutTokens(mem)
  OBVIOUS
<1>3. /\ m \in Mem /\ m.gen = mem.gen /\ m.token = mem.token /\ m.engine = mem.engine
      /\ m.email = mem.email /\ m.pending = mem.pending
  BY <1>2, FlowIs, WithoutTokensIs
<1>4. mem' = [m EXCEPT !.phase = "disconnected"]
  BY <1>2 DEF LoggedOut
<1>5. /\ mem' \in Mem /\ mem'.gen = mem.gen /\ mem'.token = mem.token /\ mem'.engine = mem.engine
      /\ mem'.phase = "disconnected" /\ mem'.pending = mem.pending
  <2>1. mem' \in Mem
    BY <1>3, <1>4 DEF Mem, Phases
  <2> QED
    BY <1>3, <1>4, <2>1 DEF Mem
<1>6. PICK c : c = IF Code("flow") = "ok" THEN [disk EXCEPT !.stored = None] ELSE Dropping(disk)
  OBVIOUS
<1>7. /\ c \in Disk /\ c.stored \in {disk.stored, None} /\ c.fence = disk.fence
      /\ c.bound = disk.bound /\ c.email = disk.email /\ c.enabled = disk.enabled
  BY <1>6, FlowIs, DroppingIs
<1>8. /\ disk' \in Disk /\ disk'.stored \in {disk.stored, None} /\ disk'.fence = disk.fence
      /\ \/ ~disk'.enabled
         \/ /\ Flow.why = "fail" /\ disk'.bound = disk.bound
            /\ disk'.email = disk.email /\ disk'.enabled = disk.enabled
  <2>1. CASE Flow.why = "fail"
    BY <1>6, <1>7, <2>1 DEF LoggedOut
  <2>2. CASE Flow.why # "fail"
    <3>1. PICK d : d = Persisted(c, FALSE)
      OBVIOUS
    <3>2. d \in Disk /\ d.stored = c.stored /\ d.fence = c.fence /\ ~d.enabled
      BY <1>7, <3>1, FlowIs, PersistedIs
    <3>3. PICK x \in Account \cup {None} : x = IF Flow.why = "clear" THEN None ELSE d.bound
      BY <3>2 DEF Disk
    <3>4. disk' = [d EXCEPT !.bound = x]
      BY <1>6, <2>2, <3>1, <3>3 DEF LoggedOut
    <3>5. disk' \in Disk
      BY <3>2, <3>4 DEF Disk
    <3>6. disk'.stored = d.stored /\ disk'.fence = d.fence /\ disk'.enabled = d.enabled
      BY <3>2, <3>4, <3>5 DEF Disk
    <3> QED
      BY <1>7, <3>2, <3>5, <3>6
  <2> QED
    BY <2>1, <2>2
<1>9. TypeOK' /\ Stages' /\ CallsOK' /\ FenceOK'
  <2>1. CallOK(Idle) /\ StageOK("flow", Idle) /\ Fenced("flow", Idle) /\ Idle \in State
    BY FlowIs, IdleIs, IdleMoves
  <2> QED
    BY <1>1, <1>5, <1>8, <2>1, FlowIs, FlowKeepsAll DEF TypeOK
<1>10. ASSUME ~hist'.overtaken PROVE Ours'
  <2>1. Ours
    BY <1>1, <1>10 DEF Inv
  <2>2. Idling("init") /\ ~Installed /\ (Flow.why \in {"fail", "cancel"} => Alone)
    BY <1>1, <2>1 DEF Ours, Leaving, Ends
  <2>3. /\ Flow'.pc = "idle" /\ Idling("init")' /\ ~Installed'
        /\ \A p \in Run : proc'[p] = proc[p] /\ (Idling(p)' <=> Idling(p))
    BY <1>1, <1>5, <2>2, FlowMoves, IdleIs DEF Installed
  <2>4. Starting' /\ SigningIn' /\ Choosing' /\ Leaving' /\ Active'
    BY <1>5, <2>3 DEF Starting, SigningIn, Choosing, Leaving, Active, Signing, Ends
  <2>5. Enabled'
    BY <1>1, <1>5, <1>8, <2>1 DEF Ours, Enabled, TokenOf, Of
  <2>6. ASSUME NEW p \in Run, ~Idling(p)' PROVE Running(p)'
    <3>1. Running(p) /\ proc'[p] = proc[p] /\ p \in Proc /\ ~Idling(p)
      BY <2>1, <2>3, <2>6, Procs DEF Ours
    <3>2. ~disk'.enabled
      BY <1>8, <2>2, <3>1 DEF Alone
    <3>3. proc[p].pc \in Going => ~IsCurrent(p) /\ ~InFence(p)
      <4>1. ASSUME proc[p].pc \in Going, InFence(p), ~IsCurrent(p) PROVE FALSE
        <5>1. PICK i \in DOMAIN fences : fences[i].gen = mem.gen
          BY <3>1, <4>1 DEF Running
        <5>2. IsCurrent("flow")
          BY <1>1, <2>1, <4>1 DEF Ours, Leaving, Ends
        <5> QED
          BY <1>1, <5>1, <5>2, FlowIs DEF FenceOK
      <4> QED
        BY <2>2, <3>1, <4>1 DEF Running
    <3>4. proc[p].pc \in Going => ~IsCurrent(p)' /\ ~InFence(p)'
      BY <1>5, <1>8, <3>1, <3>3 DEF IsCurrent, InFence
    <3>5. PICK a : a = disk'.bound
      OBVIOUS
    <3>6. proc[p].pc \notin Going => Carries(p, a)'
      <4>1. proc[p].pc \in {"idle", "fence"} \cup Going
        BY FlowIs DEF Stages
      <4> QED
        BY <3>1, <4>1 DEF Carries, Got, Going
    <3>7. disk'.enabled \/ IsCurrent(p)' \/ InFence(p)' => Carries(p, disk.bound)'
      BY <3>2, <3>4, <3>5, <3>6
    <3> QED
      BY <1>5, <2>3, <3>1, <3>2, <3>4, <3>7 DEF Running
  <2> QED
    BY <1>1, <2>1, <2>4, <2>5, <2>6 DEF Ours, NothingStrays
<1> QED
  BY <1>1, <1>9, <1>10 DEF Inv, Counts

----------------------------------------------------------------------------
(* Every step, and the theorems. *)

LEMMA InitHolds ==
    ASSUME Init
    PROVE  Inv /\ NothingStrays
<1>1. Home \in Account /\ "init" \in Proc /\ "flow" \in Proc /\ (\A p \in Run : p \in Proc /\ p # "init" /\ p # "flow")
  BY CloudAssumption, Procs
<1>2. PICK w \in BOOLEAN :
         disk = [web |-> w, device |-> 1, fence |-> 0, bound |-> Home, email |-> Home, enabled |-> TRUE,
                 stored |-> [s |-> 1, n |-> 0]]
  BY CloudAssumption DEF Init
<1>3. /\ disk \in Disk /\ disk.fence = 0 /\ disk.bound = Home /\ disk.email = Home /\ disk.enabled
      /\ disk.stored = [s |-> 1, n |-> 0] /\ disk.stored \in Token
  BY <1>1, <1>2 DEF Disk, Token
<1>4. PICK h \in Account : h = Home
  BY <1>1
<1>5. mem = Blank(h, 1)
  BY <1>4 DEF Init
<1>6. /\ mem \in Mem /\ mem.access = None /\ mem.refresh = None /\ mem.gen = 1 /\ mem.token = 0
      /\ mem.engine = 0 /\ mem.phase = "disconnected" /\ mem.email = h /\ mem.snap = None /\ mem.pending = 0
  BY <1>5, BlankIs
<1>7. /\ sessions \in Seq(Session) /\ 1 \in DOMAIN sessions /\ sessions[1].account = h
  <2>1. sessions = <<[account |-> Home, device |-> 1, n |-> 0, live |-> TRUE]>>
    BY DEF Init
  <2>2. [account |-> Home, device |-> 1, n |-> 0, live |-> TRUE] \in Session
    BY <1>1 DEF Session
  <2> QED
    BY <1>4, <2>1, <2>2
<1>8. PICK c : c = [Request("refresh") EXCEPT !.tok = disk.stored]
  OBVIOUS
<1>9. c \in Calls /\ c.kind = "refresh" /\ c.tok = disk.stored
  <2>1. c \in Calls
    BY <1>3, <1>8, RequestIs DEF Calls
  <2> QED
    BY <1>8, <2>1, RequestIs DEF Calls
<1>10. PICK r : r = [Idle EXCEPT !.pc = "refresh", !.gen = 1, !.account = h, !.call = c]
  OBVIOUS
<1>11. /\ r \in State /\ r.pc = "refresh" /\ r.gen = 1 /\ r.account = h /\ r.call = c /\ r.answer = None
  <2>1. r \in State
    BY <1>9, <1>10, IdleIs DEF State, Stage
  <2> QED
    BY <1>10, <2>1, IdleIs DEF State
<1>12. proc = [p \in Proc |-> IF p = "init" THEN r ELSE Idle]
  BY <1>3, <1>4, <1>8, <1>10 DEF Init, Loading
<1>13. proc["init"] = r /\ proc \in [Proc -> State] /\ \A p \in Proc : p # "init" => proc[p] = Idle
  BY <1>1, <1>11, <1>12, IdleIs
<1>14. /\ fences = <<>> /\ late = {} /\ hist = [strays |-> {}, overtaken |-> FALSE]
       /\ used = [logins |-> 0, reloads |-> 0, faults |-> 0]
  BY DEF Init
<1>15. /\ fences \in Seq([set: BOOLEAN, gen: Nat, token: Nat]) /\ DOMAIN fences = {}
       /\ hist \in [strays: SUBSET BOOLEAN, overtaken: BOOLEAN] /\ hist.strays = {} /\ Counts
  BY <1>14 DEF Counts
<1>16. TypeOK
  BY <1>3, <1>6, <1>7, <1>13, <1>14, <1>15 DEF TypeOK
<1>17. Stages
  BY <1>1, <1>11, <1>13, IdleIs DEF Stages, Flow, Idling
<1>18. CallsOK
  <2>1. CallOK(r)
    BY <1>9, <1>11 DEF CallOK, Asking
  <2>2. CallOK(Idle)
    BY <1>1, <1>16, IdleMoves
  <2> QED
    BY <1>13, <2>1, <2>2 DEF CallsOK, CallOK, Code
<1>19. FenceOK
  <2>1. proc["init"].gen = 1 /\ proc["init"].pc = "refresh"
    BY <1>11, <1>13
  <2>2. \A p \in Proc : p # "init" => proc[p].gen = 0 /\ proc[p].pc = "idle"
    BY <1>13, IdleIs
  <2>3. Flow.pc = "idle"
    BY <1>1, <2>2 DEF Flow
  <2> QED
    BY <1>1, <1>3, <1>6, <1>15, <2>1, <2>2, <2>3 DEF FenceOK, Installed, IsCurrent, Idling
<1>20. Ours
  <2>1. (\A p \in Run : Idling(p)) /\ Flow.pc = "idle" /\ ~Installed
    <3>1. \A p \in Proc : p # "init" => proc[p].pc = "idle"
      BY <1>13, IdleIs
    <3> QED
      BY <1>1, <1>6, <3>1 DEF Idling, Flow, Installed
  <2>2. Of(1, h) /\ Of(0, h) /\ TokenOf(disk.stored, h)
    BY <1>3, <1>7 DEF Of, TokenOf
  <2>3. Held(h)
    BY <1>6, <2>2 DEF Held, SessionOf, TokenOf
  <2>4. Carries("init", h)
    BY <1>9, <1>11, <1>13, <2>2 DEF Carries, Got
  <2>5. Starting
    BY <1>3, <1>4, <1>6, <1>11, <1>13, <2>1, <2>3, <2>4 DEF Starting
  <2>6. SigningIn /\ Choosing /\ Leaving /\ Active
    BY <1>6, <2>1 DEF SigningIn, Choosing, Leaving, Active, Signing, Ends
  <2>7. Enabled /\ NothingStrays
    BY <1>3, <1>4, <1>6, <1>15, <2>2 DEF Enabled, NothingStrays
  <2> QED
    BY <2>1, <2>5, <2>6, <2>7 DEF Ours
<1> QED
  BY <1>15, <1>16, <1>17, <1>18, <1>19, <1>20 DEF Inv, Ours

LEMMA StutterStep ==
    ASSUME Inv, UNCHANGED vars
    PROVE  Inv'
<1>1. /\ sessions' = sessions /\ late' = late /\ used' = used
      /\ UNCHANGED <<disk, mem, proc, fences, hist>>
  BY DEF vars
<1>2. sessions' \in Seq(Session) /\ Grows /\ late' \subseteq Token /\ Counts'
  BY <1>1 DEF Inv, TypeOK, Counts, Grows
<1> QED
  BY <1>1, <1>2, SessionsStep

LEMMA InvStep ==
    ASSUME Inv, [Next]_vars
    PROVE  Inv'
<1>1. CASE InitStep
  BY <1>1, InitAnswerStep, InitBeginStep, InitActivateStep DEF InitStep
<1>2. CASE UserStep
  BY <1>2, SignInStep, ChooseMergeStep, CancelStep, SignOutStep, RequestCodeStep, SetEmailStep DEF UserStep
<1>3. CASE FlowStep
  BY <1>3, CodeSentStep, SignedInStep, BindStep, FetchedStep, ChoiceStep, InitializeCloudStep,
     ActivateFlowStep, FailStep, LogoutStep, LoggedOutStep DEF FlowStep
<1>4. CASE FenceStep
  BY <1>4, FenceStepStep
<1>5. CASE \E p \in Run : RunStep(p)
  BY <1>5, RunStepStep
<1>6. CASE \E p \in Proc : Serve(p) \/ Lose(p)
  BY <1>6, ServeStep, LoseStep
<1>7. CASE ServeLate \/ EndElsewhere \/ Expire \/ Reload
  BY <1>7, ServeLateStep, EndElsewhereStep, ExpireStep, ReloadStep
<1>8. CASE UNCHANGED vars
  BY <1>8, StutterStep
<1> QED
  BY <1>1, <1>2, <1>3, <1>4, <1>5, <1>6, <1>7, <1>8 DEF Next

\* What strays is written down with the time's mark.
LEMMA StraysGrow ==
    ASSUME TypeOK, [Next]_vars
    PROVE  \/ hist'.strays = hist.strays
           \/ hist'.strays = hist.strays \cup {hist.overtaken} /\ hist'.overtaken = hist.overtaken
<1>1. PICK y \in SUBSET BOOLEAN, o \in BOOLEAN :
         hist = [strays |-> y, overtaken |-> o]
  BY DEF TypeOK
<1>2. ASSUME hist' = hist PROVE hist'.strays = hist.strays
  BY <1>2
<1>3. CASE InitStep \/ FenceStep \/ ServeLate \/ EndElsewhere \/ Expire \/ Reload \/ UNCHANGED vars
  BY <1>3 DEF InitStep, InitAnswer, InitBegin, InitActivate, FenceStep, ServeLate, EndElsewhere,
              Expire, Reload, vars
<1>4. CASE UserStep
  <2>1. CASE ChooseMerge \/ Cancel \/ SignOut \/ RequestCode
    BY <2>1 DEF ChooseMerge, Cancel, SignOut, RequestCode, Leave
  <2>2. CASE SignIn
    <3>1. PICK x : x = (hist.overtaken \/ Busy \/ (disk.enabled /\ HeldToken # None))
      OBVIOUS
    <3>2. hist' = [hist EXCEPT !.overtaken = x]
      BY <2>2, <3>1 DEF SignIn
    <3> QED
      BY <1>1, <3>2
  <2>3. CASE \E a \in Account : SetEmail(a)
    <3>1. PICK x : x = (hist.overtaken \/ Busy)
      OBVIOUS
    <3>2. hist' = [hist EXCEPT !.overtaken = x]
      BY <2>3, <3>1 DEF SetEmail, Overtaking
    <3> QED
      BY <1>1, <3>2
  <2> QED
    BY <1>4, <2>1, <2>2, <2>3 DEF UserStep
<1>5. ASSUME \/ hist' = hist
             \/ hist' = [hist EXCEPT !.strays = @ \cup {hist.overtaken}]
      PROVE  \/ hist'.strays = hist.strays
             \/ hist'.strays = hist.strays \cup {hist.overtaken} /\ hist'.overtaken = hist.overtaken
  BY <1>1, <1>5
<1>6. CASE FlowStep
  <2>1. CASE InitializeCloud
    BY <1>5, <2>1 DEF InitializeCloud
  <2>2. CASE \/ CodeSent \/ SignedIn \/ Bind \/ Fetched \/ Choice \/ ActivateFlow
             \/ Fail \/ Logout \/ LoggedOut
    BY <2>2 DEF CodeSent, SignedIn, Bind, Fetched, Choice, ActivateFlow, Fail, Leave, Logout, LoggedOut
  <2> QED
    BY <1>6, <2>1, <2>2 DEF FlowStep
<1>7. CASE \E p \in Run : RunStep(p)
  <2>1. PICK p \in Run : RunStep(p)
    BY <1>7
  <2>2. CASE Apply(p)
    BY <1>5, <2>2 DEF Apply
  <2>3. CASE ~Apply(p)
    BY <2>1, <2>3 DEF RunStep, StartRun, RunRefreshed, RunAnswered, ExpireSession, DropSession, SayExpired
  <2> QED
    BY <2>2, <2>3
<1>8. CASE \E p \in Proc : Serve(p) \/ Lose(p)
  BY <1>8 DEF Serve, Lose
<1> QED
  BY <1>3, <1>4, <1>6, <1>7, <1>8 DEF Next

LEMMA StraysStep ==
    ASSUME Inv, NothingStrays, [Next]_vars
    PROVE  NothingStrays'
<1>1. TypeOK /\ Inv'
  BY InvStep DEF Inv
<1>2. CASE ~hist'.overtaken
  BY <1>1, <1>2 DEF Inv, Ours
<1>3. CASE hist'.overtaken
  BY <1>1, <1>3, StraysGrow DEF NothingStrays, TypeOK
<1> QED
  BY <1>2, <1>3

\* Whatever the flows do, and whatever gets lost, the inductive invariant
\* holds: the newest generation alone has the fence, and until a sign-in has
\* overtaken another flow, tokens, calls and data are of one account.
THEOREM Invariant == Spec => []Inv
<1>1. Init => Inv
  BY InitHolds
<1>2. Inv /\ [Next]_vars => Inv'
  BY InvStep
<1> QED
  BY <1>1, <1>2, PTL DEF Spec

\* The variables of the controller and of the service keep their types.
THEOREM TypeCorrect == Spec => []TypeOK
<1>1. Inv => TypeOK
  BY DEF Inv
<1> QED
  BY <1>1, Invariant, PTL

\* The store never takes data of another account than the one it is bound to,
\* unless a sign-in overtook another flow.
THEOREM NothingEverStrays == Spec => []NothingStrays
<1>1. Init => Inv /\ NothingStrays
  BY InitHolds
<1>2. Inv /\ NothingStrays /\ [Next]_vars => Inv' /\ NothingStrays'
  BY InvStep, StraysStep
<1> QED
  BY <1>1, <1>2, PTL DEF Spec

\* An engine that is installed writes in the session of the newest generation,
\* whose fence stands in the store; and unless a sign-in overtook another
\* flow, the tokens it uses and the data it writes are of one account.
EngineIsOurs ==
    Installed =>
        /\ disk.fence = mem.gen
        /\ ~hist.overtaken => Of(SessionOf(mem), disk.bound) /\ TokenOf(disk.stored, disk.bound)
THEOREM EngineOwned == Spec => []EngineIsOurs
<1>1. Inv => EngineIsOurs
  BY DEF Inv, FenceOK, Ours, Active, Held, EngineIsOurs
<1> QED
  BY <1>1, Invariant, PTL
============================================================================
