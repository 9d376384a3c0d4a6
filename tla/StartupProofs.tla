--------------------------- MODULE StartupProofs ---------------------------
(***************************************************************************)
(* Theorems about Startup, for any instances, releases, configurations and *)
(* contents of the database.                                               *)
(***************************************************************************)
EXTENDS Startup, FiniteSetTheorems, TLAPS

-----------------------------------------------------------------------------
(* The inductive invariant: what holds of one instance, as a record, beside *)
(* the contents of the database.                                            *)

Fields == DOMAIN Fresh

Writing   == {"translations", "roles", "rules", "commit"}
Ending    == {"closing", "failed", "stopped"}
Enforcing == {"mcp", "sse", "http", "grpc", "queue", "job", "app", "running"}
Migrating == {"clients", "load", "migrate"}
Early     == {"down", "clients", "load", "migrate", "describe", "describing"}

\* The roles have the menus of the template; the rules are those of the roles.
Copied(d) == SyncTenantRoleMenus(d) = d
Ruled(d)  == \E pick \in Picks(d) : d.policies = buildCasbinRuleList(d, pick)

Typed(q) ==
    /\ DOMAIN q = Fields /\ q.pc \in PCs
    /\ q.release \in DOMAIN Releases \cup {None} /\ q.config \in DOMAIN Configs \cup {None}
    /\ q.pc \notin {"down", "failed", "stopped"} => q.release \in DOMAIN Releases
    /\ q.migrated \in Nat
    /\ q.pc \in Migrating => q.migrated <= Len(Releases[q.release].migrations)

\* What a transaction has done so far, on its own view.
Views(q) ==
    /\ q.pc \in Writing => Contents(q.view)
    /\ q.pc \in {"rules", "commit"} => Copied(q.view)
    /\ q.pc = "commit" => Ruled(q.view)

\* A sequence of whatever its elements are.
IsSeq(s) == s \in Seq({s[k] : k \in DOMAIN s})

\* The cleanups begin when the servers have stopped, and go backwards.
Releasing(q) ==
    /\ IsSeq(q.opened) /\ IsSeq(q.closed) /\ Len(q.closed) <= Len(q.opened)
    /\ \A k \in DOMAIN q.closed : q.closed[k] = q.opened[Len(q.opened) - k + 1]
    /\ q.pc \notin Ending => q.closed = <<>>
    /\ q.pc # "running" => q.serving = {}
    /\ q.pc \in {"failed", "stopped"} => Len(q.closed) = Len(q.opened)

Enforces(q, apis, policies) ==
    /\ q.pc = "policies" => q.apis = apis
    /\ q.pc \in Enforcing => q.memory = Effective(apis, policies)

Describing(q, i18n) ==
    /\ q.pc = "describing" => q.seen.i18n = i18n
    /\ q.pc \notin Early /\ q.ok /\ Releases[q.release].migrations # <<>> =>
         \E texts \in Texts(Releases[q.release].readmes) :
             \A k \in DOMAIN texts : k \in DOMAIN i18n /\ i18n[k] = texts[k]

Globals ==
    /\ Contents(db) /\ db.history \subseteq Applied
    /\ synced \in BOOLEAN /\ writer \in Instances \cup {None}
    /\ DOMAIN inst = Instances
    /\ redescribed \subseteq Instances /\ resynced \subseteq Instances
    /\ starts \in 0..MaxStarts

StartInv ==
    /\ Globals
    /\ synced => Copied(db) /\ Ruled(db)
    /\ \A i \in Instances :
         /\ Typed(inst[i]) /\ Views(inst[i]) /\ Releasing(inst[i])
         /\ inst[i].pc \in Writing <=> writer = i
         /\ i \notin resynced => Enforces(inst[i], db.apis, db.policies)
         /\ i \notin redescribed => Describing(inst[i], db.i18n)


-----------------------------------------------------------------------------
(* A step of one instance. *)

\* What a step of i must establish: for the others it may only forget.
LEMMA Stepped ==
    ASSUME StartInv, NEW i \in Instances, NEW to, Set(i, to), Globals',
           Typed(to), Views(to), Releasing(to), to.pc \in Writing <=> writer' = i,
           \A j \in Instances \ {i} : writer' = j <=> writer = j,
           i \notin resynced' => Enforces(to, db'.apis, db'.policies),
           i \notin redescribed' => Describing(to, db'.i18n),
           \A j \in Instances \ {i} : j \notin resynced' =>
               j \notin resynced /\ db'.apis = db.apis /\ db'.policies = db.policies,
           \A j \in Instances \ {i} : j \notin redescribed' => j \notin redescribed /\ db'.i18n = db.i18n,
           synced' => Copied(db') /\ Ruled(db')
    PROVE  StartInv'
<1>1. /\ inst'[i] = to
      /\ \A j \in Instances \ {i} : inst'[j] = inst[j]
  BY DEF Set, StartInv, Globals
<1>2. ASSUME NEW j \in Instances
      PROVE  /\ Typed(inst'[j]) /\ Views(inst'[j]) /\ Releasing(inst'[j])
             /\ inst'[j].pc \in Writing <=> writer' = j
             /\ j \notin resynced' => Enforces(inst'[j], db'.apis, db'.policies)
             /\ j \notin redescribed' => Describing(inst'[j], db'.i18n)
  <2>1. CASE j = i
    BY <1>1, <2>1
  <2>2. CASE j # i
    <3>1. inst'[j] = inst[j] /\ j \in Instances \ {i}
      BY <1>1, <2>2
    <3>2. /\ Typed(inst[j]) /\ Views(inst[j]) /\ Releasing(inst[j])
          /\ inst[j].pc \in Writing <=> writer = j
          /\ j \notin resynced => Enforces(inst[j], db.apis, db.policies)
          /\ j \notin redescribed => Describing(inst[j], db.i18n)
      BY DEF StartInv
    <3> QED
      BY <3>1, <3>2
  <2> QED
    BY <2>1, <2>2
<1>3. (Copied(db) /\ Ruled(db))' <=> Copied(db') /\ Ruled(db')
  BY DEF Copied, Ruled
<1> QED
  BY <1>2, <1>3 DEF StartInv, Typed, Views, Releasing, Enforces, Describing, Copied, Ruled

\* A step of i outside of its transaction, and of the shared state.
LEMMA Aside ==
    ASSUME StartInv, NEW i \in Instances, NEW to, Set(i, to),
           UNCHANGED <<db, writer, synced, redescribed, resynced>>, starts' \in 0..MaxStarts,
           inst[i].pc \notin Writing, to.pc \notin Writing,
           Typed(to), Releasing(to),
           i \notin resynced => Enforces(to, db.apis, db.policies),
           i \notin redescribed => Describing(to, db.i18n)
    PROVE  StartInv'
<1>1. Globals'
  BY DEF StartInv, Globals, Set
<1>2. Views(to)
  BY DEF Views, Writing
<1>3. to.pc \in Writing <=> writer' = i
  BY DEF StartInv
<1>4. synced' => Copied(db') /\ Ruled(db')
  BY DEF StartInv
<1> QED
  BY <1>1, <1>2, <1>3, <1>4, Stepped

LEMMA Of ==
    ASSUME StartInv, NEW i \in Instances
    PROVE  /\ Globals /\ Typed(inst[i]) /\ Views(inst[i]) /\ Releasing(inst[i])
           /\ inst[i].pc \in Writing <=> writer = i
           /\ i \notin resynced => Enforces(inst[i], db.apis, db.policies)
           /\ i \notin redescribed => Describing(inst[i], db.i18n)
           /\ DOMAIN inst[i] = Fields
  BY DEF StartInv, Typed

\* Going on to the next place, past none of those where something is established.
LEMMA Gone ==
    ASSUME StartInv, NEW i \in Instances, NEW p, Goes(i, p),
           inst[i].pc \notin Writing \cup Ending \cup {"down"}, inst[i].pc = "running" => inst[i].serving = {},
           p \in PCs \ (Writing \cup {"policies", "describing", "running", "failed", "stopped", "down"}),
           p \in Enforcing => inst[i].pc \in Enforcing, p \in Migrating => inst[i].pc \in Migrating,
           \/ p \in Early \/ inst[i].pc \notin Early
           \/ Releases[inst[i].release].migrations = <<>>
           \/ Localised(Releases[inst[i].release].readmes) = {}
    PROVE  StartInv'
<1> DEFINE q == inst[i]
           to == [q EXCEPT !.pc = p]
<1>1. /\ Typed(q) /\ Releasing(q) /\ DOMAIN q = Fields
      /\ i \notin resynced => Enforces(q, db.apis, db.policies)
      /\ i \notin redescribed => Describing(q, db.i18n)
  BY Of
<1>2. /\ Set(i, to) /\ UNCHANGED <<db, writer, synced, redescribed, resynced, starts>>
  BY DEF Goes, Local, ghosts
<1> HIDE DEF q
<1>3. /\ DOMAIN to = Fields /\ to.pc = p /\ to.release = q.release /\ to.config = q.config
      /\ to.opened = q.opened /\ to.closed = q.closed /\ to.serving = q.serving
      /\ to.migrated = q.migrated /\ to.memory = q.memory /\ to.ok = q.ok
  BY <1>1 DEF Fields, Fresh
<1>4. /\ q.pc \notin Writing \cup Ending \cup {"down"} /\ (q.pc = "running" => q.serving = {})
      /\ p \in Enforcing => q.pc \in Enforcing
      /\ p \in Migrating => q.pc \in Migrating
      /\ \/ p \in Early \/ q.pc \notin Early
         \/ Releases[q.release].migrations = <<>>
         \/ Localised(Releases[q.release].readmes) = {}
  BY DEF q
<1> HIDE DEF to
<1>5. Typed(to)
  BY <1>1, <1>3, <1>4 DEF Typed, Ending
<1>6. Releasing(to)
  BY <1>1, <1>3, <1>4 DEF Releasing, Ending
<1>7. i \notin resynced => Enforces(to, db.apis, db.policies)
  BY <1>1, <1>3, <1>4 DEF Enforces
<1>8. Localised(Releases[q.release].readmes) = {} =>
         \E texts \in Texts(Releases[q.release].readmes) : DOMAIN texts = {}
  <2> SUFFICES ASSUME NEW readmes, Localised(readmes) = {}
               PROVE  \E texts \in Texts(readmes) : DOMAIN texts = {}
    OBVIOUS
  <2> DEFINE none == [k \in {} |-> 0]
  <2>1. none \in Texts(readmes)
    BY DEF Texts
  <2> QED
    BY <2>1
<1>9. i \notin redescribed => Describing(to, db.i18n)
  BY <1>1, <1>3, <1>4, <1>8 DEF Describing
<1>10. starts' \in 0..MaxStarts
  BY <1>2 DEF StartInv, Globals
<1> QED
  BY <1>2, <1>3, <1>4, <1>5, <1>6, <1>7, <1>9, <1>10, Aside DEF q

\* What is appended to a sequence.
LEMMA Appended ==
    ASSUME NEW s, IsSeq(s), NEW e
    PROVE  /\ IsSeq(Append(s, e)) /\ Len(Append(s, e)) = Len(s) + 1 /\ Len(s) \in Nat
           /\ DOMAIN s = 1..Len(s) /\ DOMAIN Append(s, e) = 1..Len(s) + 1
           /\ Append(s, e)[Len(s) + 1] = e
           /\ \A k \in 1..Len(s) : Append(s, e)[k] = s[k]
<1> DEFINE S == {s[k] : k \in DOMAIN s} \cup {e}
           t == Append(s, e)
<1>1. s \in Seq(S)
  <2>1. s \in Seq({s[k] : k \in DOMAIN s})
    BY DEF IsSeq
  <2> QED
    BY <2>1
<1> HIDE DEF S
<1>2. e \in S
  BY DEF S
<1>3. /\ Len(t) = Len(s) + 1 /\ Len(s) \in Nat
      /\ DOMAIN s = 1..Len(s) /\ DOMAIN t = 1..Len(s) + 1
      /\ t[Len(s) + 1] = e /\ t \in Seq(S)
      /\ \A k \in 1..Len(s) : t[k] = s[k]
  BY <1>1, <1>2
<1>4. t \in Seq({t[k] : k \in DOMAIN t})
  BY <1>3
<1> QED
  BY <1>3, <1>4 DEF IsSeq

\* A step that fails: the cleanups begin, of what may include one thing more.
LEMMA Failed ==
    ASSUME StartInv, NEW i \in Instances, NEW to, Set(i, to),
           UNCHANGED <<db, writer, synced, redescribed, resynced, starts>>,
           inst[i].pc \notin Writing \cup Ending \cup {"down", "running"},
           \/ to = Failing(i)
           \/ \E x : to = [Failing(i) EXCEPT !.opened = Append(inst[i].opened, x)]
    PROVE  StartInv'
<1>1. /\ Typed(inst[i]) /\ Releasing(inst[i]) /\ DOMAIN inst[i] = Fields
  BY Of
<1>2. /\ DOMAIN to = Fields /\ to.pc = "closing" /\ to.ok = FALSE
      /\ to.release = inst[i].release /\ to.config = inst[i].config
      /\ to.closed = inst[i].closed /\ to.serving = inst[i].serving /\ to.migrated = inst[i].migrated
      /\ to.opened = inst[i].opened \/ \E x : to.opened = Append(inst[i].opened, x)
  BY <1>1 DEF Failing, Fields, Fresh
<1>3. Typed(to)
  BY <1>1, <1>2 DEF Typed, PCs, Ending, Migrating
<1>4. IsSeq(to.opened) /\ Len(to.opened) \in Nat /\ to.closed = <<>>
  <2>1. IsSeq(inst[i].opened) /\ inst[i].closed = <<>>
    BY <1>1 DEF Releasing
  <2>2. CASE to.opened = inst[i].opened
    BY <1>2, <2>1, <2>2, Appended
  <2>3. ASSUME NEW x, to.opened = Append(inst[i].opened, x)
        PROVE  IsSeq(to.opened) /\ Len(to.opened) \in Nat
    <3>1. IsSeq(Append(inst[i].opened, x)) /\ Len(Append(inst[i].opened, x)) \in Nat
      BY <2>1, Appended
    <3> QED
      BY <2>3, <3>1
  <2> QED
    BY <1>2, <2>1, <2>2, <2>3
<1>5. Releasing(to)
  BY <1>1, <1>2, <1>4 DEF Releasing, Ending
<1>6. Enforces(to, db.apis, db.policies) /\ Describing(to, db.i18n)
  BY <1>2 DEF Enforces, Describing, Enforcing
<1>7. starts' \in 0..MaxStarts
  BY DEF StartInv, Globals
<1> QED
  BY <1>2, <1>3, <1>5, <1>6, <1>7, Aside DEF Writing


-----------------------------------------------------------------------------
(* The steps. *)

\* The places of an instance that is neither in a transaction nor ending.
Open == PCs \ (Writing \cup Ending \cup {"down", "running"})

LEMMA GoneFrom ==
    ASSUME StartInv, NEW i \in Instances, NEW p, Goes(i, p), inst[i].pc \in Open,
           p \in Open \ {"policies", "describing"},
           p \in Enforcing => inst[i].pc \in Enforcing, p \in Migrating => inst[i].pc \in Migrating,
           p \in Early \/ inst[i].pc \notin Early
    PROVE  StartInv'
<1>1. /\ inst[i].pc \notin Writing \cup Ending \cup {"down"} /\ inst[i].pc # "running"
      /\ p \in PCs \ (Writing \cup {"policies", "describing", "running", "failed", "stopped", "down"})
  BY DEF Open, Ending
<1> QED
  BY <1>1, Gone

LEMMA FailsFrom ==
    ASSUME StartInv, NEW i \in Instances, Fails(i), inst[i].pc \in Open
    PROVE  StartInv'
<1>1. /\ Set(i, Failing(i)) /\ UNCHANGED <<db, writer, synced, redescribed, resynced, starts>>
      /\ inst[i].pc \notin Writing \cup Ending \cup {"down", "running"}
  BY DEF Fails, Local, ghosts, Open
<1> QED
  BY <1>1, Failed

LEMMA StartStep ==
    ASSUME StartInv, NEW i \in Instances, NEW release \in DOMAIN Releases, NEW config \in DOMAIN Configs,
           Start(i, release, config)
    PROVE  StartInv'
<1> DEFINE to == [Fresh EXCEPT !.pc = "clients", !.release = release, !.config = config]
<1>1. /\ Set(i, to) /\ UNCHANGED <<db, writer, synced, redescribed, resynced>>
      /\ starts < MaxStarts /\ starts' = starts + 1 /\ inst[i].pc \in {"down", "failed", "stopped"}
  BY DEF Start, ghosts
<1>2. /\ DOMAIN to = Fields /\ to.pc = "clients" /\ to.release = release /\ to.config = config
      /\ to.opened = <<>> /\ to.closed = <<>> /\ to.serving = {} /\ to.migrated = 0
  BY DEF Fresh, Fields
<1> HIDE DEF to
<1>3. starts' \in 0..MaxStarts
  BY <1>1, StartAssumption DEF StartInv, Globals
<1>4. Typed(to)
  <2>1. Len(Releases[release].migrations) \in Nat
    BY StartAssumption
  <2> QED
    BY <1>2, <2>1 DEF Typed, PCs
<1>5. Releasing(to)
  <2>1. <<>> \in Seq({}) /\ Len(<<>>) = 0 /\ DOMAIN <<>> = {}
    OBVIOUS
  <2>2. IsSeq(<<>>)
    BY DEF IsSeq
  <2> QED
    BY <1>2, <2>1, <2>2 DEF Releasing, Ending
<1>6. Enforces(to, db.apis, db.policies) /\ Describing(to, db.i18n)
  BY <1>2 DEF Enforces, Describing, Enforcing, Early
<1>7. inst[i].pc \notin Writing /\ to.pc \notin Writing
  BY <1>1, <1>2 DEF Writing
<1> QED
  BY <1>1, <1>3, <1>4, <1>5, <1>6, <1>7, Aside

LEMMA FreshGood ==
    /\ DOMAIN Fresh = Fields /\ Fresh.pc = "down" /\ Typed(Fresh) /\ Views(Fresh) /\ Releasing(Fresh)
    /\ \A apis, policies : Enforces(Fresh, apis, policies)
    /\ \A i18n : Describing(Fresh, i18n)
<1>1. /\ DOMAIN Fresh = Fields /\ Fresh.pc = "down" /\ Fresh.release = None /\ Fresh.config = None
      /\ Fresh.opened = <<>> /\ Fresh.closed = <<>> /\ Fresh.serving = {} /\ Fresh.migrated = 0
  BY DEF Fresh, Fields
<1>2. Typed(Fresh)
  BY <1>1 DEF Typed, PCs, Migrating
<1>3. Releasing(Fresh)
  <2>1. <<>> \in Seq({}) /\ Len(<<>>) = 0 /\ DOMAIN <<>> = {}
    OBVIOUS
  <2>2. IsSeq(<<>>)
    BY DEF IsSeq
  <2> QED
    BY <1>1, <2>1, <2>2 DEF Releasing, Ending
<1> QED
  BY <1>1, <1>2, <1>3 DEF Views, Writing, Enforces, Enforcing, Describing, Early

\* A transaction that ends without a commit, and a crash.
LEMMA CrashStep ==
    ASSUME StartInv, NEW i \in Instances, Crash(i) PROVE StartInv'
<1>1. /\ Set(i, Fresh) /\ UNCHANGED <<db, synced, redescribed, resynced, starts>>
      /\ writer' = IF writer = i THEN None ELSE writer
  BY DEF Crash, ghosts
<1>2. Globals'
  BY <1>1 DEF StartInv, Globals, Set
<1>3. \A j \in Instances \ {i} : writer' = j <=> writer = j
  BY <1>1, StartAssumption
<1>4. Fresh.pc \in Writing <=> writer' = i
  BY <1>1, FreshGood, StartAssumption DEF Writing
<1>5. synced' => Copied(db') /\ Ruled(db')
  BY <1>1 DEF StartInv
<1> QED
  BY <1>1, <1>2, <1>3, <1>4, <1>5, FreshGood, Stepped

LEMMA NewClientsStep ==
    ASSUME StartInv, NEW i \in Instances, NewClients(i) PROVE StartInv'
<1>1. inst[i].pc = "clients" /\ inst[i].pc \in Open
  BY DEF NewClients, Open, PCs, Writing, Ending
<1>2. /\ Typed(inst[i]) /\ Releasing(inst[i]) /\ DOMAIN inst[i] = Fields
  BY Of
<1> DEFINE open(x) == Append(inst[i].opened, x)
<1>3. \/ Goes(i, "load")
      \/ Fails(i)
      \/ \E x : \/ Local(i, [inst[i] EXCEPT !.opened = open(x)])
                \/ \E half \in {open(x), inst[i].opened} : Local(i, [Failing(i) EXCEPT !.opened = half])
  BY DEF NewClients
<1>4. CASE Goes(i, "load")
  <2>1. "load" \in Open \ {"policies", "describing"} /\ "load" \in Early /\ "load" \notin Enforcing
        /\ "clients" \in Migrating
    BY DEF Open, PCs, Writing, Ending, Early, Enforcing, Migrating
  <2> QED
    BY <1>1, <1>4, <2>1, GoneFrom
<1>5. CASE Fails(i)
  BY <1>1, <1>5, FailsFrom
<1>6. ASSUME NEW x, Local(i, [inst[i] EXCEPT !.opened = open(x)]) PROVE StartInv'
  <2> DEFINE to == [inst[i] EXCEPT !.opened = open(x)]
  <2>1. Set(i, to) /\ UNCHANGED <<db, writer, synced, redescribed, resynced, starts>>
    BY <1>6 DEF Local, ghosts
  <2>2. /\ DOMAIN to = Fields /\ to.pc = "clients" /\ to.opened = open(x) /\ to.closed = inst[i].closed
        /\ to.release = inst[i].release /\ to.config = inst[i].config
        /\ to.serving = inst[i].serving /\ to.migrated = inst[i].migrated
    BY <1>1, <1>2 DEF Fields, Fresh
  <2> HIDE DEF to
  <2>3. Typed(to)
    BY <1>1, <1>2, <2>2 DEF Typed
  <2>4. Releasing(to)
    BY <1>1, <1>2, <2>2, Appended DEF Releasing, Ending
  <2>5. Enforces(to, db.apis, db.policies) /\ Describing(to, db.i18n)
    BY <2>2 DEF Enforces, Describing, Enforcing, Early
  <2>6. starts' \in 0..MaxStarts
    BY <2>1 DEF StartInv, Globals
  <2> QED
    BY <1>1, <2>1, <2>2, <2>3, <2>4, <2>5, <2>6, Aside DEF Writing
<1>7. ASSUME NEW x, NEW half \in {open(x), inst[i].opened}, Local(i, [Failing(i) EXCEPT !.opened = half])
      PROVE  StartInv'
  <2>1. /\ Set(i, [Failing(i) EXCEPT !.opened = half])
        /\ UNCHANGED <<db, writer, synced, redescribed, resynced, starts>>
    BY <1>7 DEF Local, ghosts
  <2>2. CASE half = open(x)
    BY <1>1, <2>1, <2>2, Failed DEF Writing, Ending
  <2>3. CASE half = inst[i].opened
    <3>1. [Failing(i) EXCEPT !.opened = half] = Failing(i)
      BY <1>2, <2>3 DEF Failing, Fields, Fresh
    <3> QED
      BY <1>1, <2>1, <3>1, Failed DEF Writing, Ending
  <2> QED
    BY <2>2, <2>3
<1> QED
  BY <1>3, <1>4, <1>5, <1>6, <1>7


-----------------------------------------------------------------------------
(* What the operators on the contents depend on. *)

LEMMA SameCopied ==
    ASSUME NEW d, NEW e, Contents(d), Contents(e), d.tenants = e.tenants, d.roles = e.roles
    PROVE  Copied(d) <=> Copied(e)
<1> DEFINE menus(c) == c.roles[CHOOSE r \in Templates(c) : TRUE].menus
           roles(c) == [r \in DOMAIN c.roles |->
                           IF c.roles[r].code = TenantRole THEN [c.roles[r] EXCEPT !.menus = menus(c)] ELSE c.roles[r]]
<1>1. Templates(d) = Templates(e)
  BY DEF Templates
<1>2. ASSUME NEW c, Contents(c) PROVE Copied(c) <=> Templates(c) = {} \/ roles(c) = c.roles
  <2>1. CASE Templates(c) = {}
    BY <2>1 DEF Copied, SyncTenantRoleMenus
  <2>2. CASE Templates(c) # {}
    <3>1. SyncTenantRoleMenus(c) = [c EXCEPT !.roles = roles(c)]
      BY <2>2 DEF SyncTenantRoleMenus
    <3> HIDE DEF roles
    <3>2. [c EXCEPT !.roles = roles(c)] = c <=> roles(c) = c.roles
      BY <1>2 DEF Contents
    <3> QED
      BY <2>2, <3>1, <3>2 DEF Copied
  <2> QED
    BY <2>1, <2>2
<1>3. roles(d) = roles(e)
  BY <1>1
<1> HIDE DEF roles
<1> QED
  BY <1>1, <1>2, <1>3

LEMMA SameRuled ==
    ASSUME NEW d, NEW e, d.tenants = e.tenants, d.roles = e.roles, d.menus = e.menus,
           d.apis = e.apis, d.policies = e.policies, Ruled(d)
    PROVE  Ruled(e)
<1>1. Picks(d) = Picks(e)
  BY DEF Picks
<1>2. \A pick : buildCasbinRuleList(d, pick) = buildCasbinRuleList(e, pick)
  BY DEF buildCasbinRuleList
<1> QED
  BY <1>1, <1>2 DEF Ruled

\* Copying the menus once is enough, and leaves the other tables alone.
LEMMA CopiedOnce ==
    ASSUME NEW d, Contents(d), NEW e, e = SyncTenantRoleMenus(d)
    PROVE  Contents(e) /\ Copied(e)
<1>1. CASE Templates(d) = {}
  BY <1>1 DEF SyncTenantRoleMenus, Copied
<1>2. CASE Templates(d) # {}
  <2> DEFINE first == CHOOSE r \in Templates(d) : TRUE
             menus == d.roles[first].menus
             roles == [r \in DOMAIN d.roles |->
                          IF d.roles[r].code = TenantRole THEN [d.roles[r] EXCEPT !.menus = menus] ELSE d.roles[r]]
  <2>1. e = [d EXCEPT !.roles = roles]
    BY <1>2 DEF SyncTenantRoleMenus
  <2>2. first \in Templates(d)
    BY <1>2
  <2> HIDE DEF first
  <2>3. /\ \A r \in DOMAIN d.roles : /\ roles[r].code = d.roles[r].code
                                     /\ roles[r].tenant = d.roles[r].tenant
        /\ DOMAIN roles = DOMAIN d.roles
    OBVIOUS
  <2>4. first \in DOMAIN d.roles /\ d.roles[first].code = TenantRole
    BY <2>2 DEF Templates
  <2>5. [d.roles[first] EXCEPT !.menus = menus].menus = menus
    OBVIOUS
  <2>6. roles[first].menus = menus
    BY <2>4, <2>5
  <2>7. ASSUME NEW r \in DOMAIN roles, roles[r].code = TenantRole
        PROVE  [roles[r] EXCEPT !.menus = menus] = roles[r]
    <3>1. roles[r] = [d.roles[r] EXCEPT !.menus = menus]
      BY <2>3, <2>7
    <3> QED
      BY <3>1
  <2> HIDE DEF roles, menus
  <2>8. Contents(e) /\ e.roles = roles /\ e.tenants = d.tenants
    BY <2>1 DEF Contents
  <2>9. Templates(e) = Templates(d)
    BY <2>3, <2>8 DEF Templates
  <2>10. SyncTenantRoleMenus(e) =
           [e EXCEPT !.roles = [r \in DOMAIN roles |->
               IF roles[r].code = TenantRole THEN [roles[r] EXCEPT !.menus = menus] ELSE roles[r]]]
    <3>1. (CHOOSE r \in Templates(e) : TRUE) = first
      BY <2>9 DEF first
    <3>2. e.roles[CHOOSE r \in Templates(e) : TRUE].menus = menus
      BY <2>6, <2>8, <3>1
    <3> DEFINE copy(m, roles_) == [r \in DOMAIN roles_ |->
                 IF roles_[r].code = TenantRole THEN [roles_[r] EXCEPT !.menus = m] ELSE roles_[r]]
    <3>3. SyncTenantRoleMenus(e) = [e EXCEPT !.roles = copy(e.roles[CHOOSE r \in Templates(e) : TRUE].menus, e.roles)]
      BY <1>2, <2>9, Zenon DEF SyncTenantRoleMenus
    <3> HIDE DEF copy
    <3>4. SyncTenantRoleMenus(e) = [e EXCEPT !.roles = copy(menus, roles)]
      BY <2>8, <3>2, <3>3
    <3> QED
      BY <3>4 DEF copy
  <2>11. [r \in DOMAIN roles |->
             IF roles[r].code = TenantRole THEN [roles[r] EXCEPT !.menus = menus] ELSE roles[r]] = roles
    <3>1. [r \in DOMAIN roles |->
             IF roles[r].code = TenantRole THEN [roles[r] EXCEPT !.menus = menus] ELSE roles[r]]
          = [r \in DOMAIN roles |-> roles[r]]
      BY <2>7
    <3> QED
      BY <3>1 DEF roles
  <2>12. [e EXCEPT !.roles = roles] = e
    BY <2>8 DEF Contents
  <2> QED
    BY <2>8, <2>10, <2>11, <2>12 DEF Copied
<1> QED
  BY <1>1, <1>2

\* New rules leave the roles as they are.
LEMMA RulesBuilt ==
    ASSUME NEW d, Contents(d), Copied(d), NEW pick \in Picks(d),
           NEW e, e = [d EXCEPT !.policies = buildCasbinRuleList(d, pick)]
    PROVE  Contents(e) /\ Copied(e) /\ Ruled(e)
<1>1. /\ Contents(e) /\ e.tenants = d.tenants /\ e.roles = d.roles /\ e.menus = d.menus /\ e.apis = d.apis
      /\ e.policies = buildCasbinRuleList(d, pick)
  BY DEF Contents
<1>2. Copied(e)
  BY <1>1, SameCopied
<1>3. Picks(e) = Picks(d) /\ buildCasbinRuleList(e, pick) = buildCasbinRuleList(d, pick)
  <2>1. e.apis = d.apis /\ e.tenants = d.tenants /\ e.roles = d.roles /\ e.menus = d.menus
    BY <1>1
  <2>2. Picks(e) = Picks(d)
    BY <2>1, Zenon DEF Picks
  <2>3. buildCasbinRuleList(e, pick) = buildCasbinRuleList(d, pick)
    BY <2>1, Zenon DEF buildCasbinRuleList
  <2> QED
    BY <2>2, <2>3
<1> QED
  BY <1>1, <1>2, <1>3 DEF Ruled

\* What migrations and descriptions write is in other tables.
LEMMA OtherTables ==
    ASSUME NEW d, Contents(d), NEW e, Contents(e), e.tenants = d.tenants, e.roles = d.roles,
           e.menus = d.menus, e.apis = d.apis, e.policies = d.policies
    PROVE  /\ Copied(d) => Copied(e)
           /\ Ruled(d) => Ruled(e)
  BY SameCopied, SameRuled

-----------------------------------------------------------------------------
(* Migrations and their descriptions. *)

\* What failing makes of a record.
LEMMA FailingFields ==
    ASSUME NEW i, DOMAIN inst[i] = Fields, NEW to, to = Failing(i)
    PROVE  /\ DOMAIN to = Fields /\ to.pc = "closing" /\ to.ok = FALSE
           /\ to.release = inst[i].release /\ to.config = inst[i].config
           /\ to.opened = inst[i].opened /\ to.closed = inst[i].closed /\ to.serving = inst[i].serving
           /\ to.migrated = inst[i].migrated
  BY DEF Failing, Fields, Fresh

LEMMA FailingGood ==
    ASSUME StartInv, NEW i \in Instances, inst[i].pc \notin Ending \cup {"down", "running"}, NEW to, to = Failing(i)
    PROVE  /\ Typed(to) /\ Views(to) /\ Releasing(to) /\ to.pc \notin Writing
           /\ \A apis, policies : Enforces(to, apis, policies)
           /\ \A i18n : Describing(to, i18n)
<1>1. /\ Typed(inst[i]) /\ Releasing(inst[i]) /\ DOMAIN inst[i] = Fields
  BY Of
<1>2. /\ DOMAIN to = Fields /\ to.pc = "closing" /\ to.ok = FALSE
      /\ to.release = inst[i].release /\ to.config = inst[i].config
      /\ to.opened = inst[i].opened /\ to.closed = inst[i].closed /\ to.serving = inst[i].serving
      /\ to.migrated = inst[i].migrated
  BY <1>1, FailingFields
<1>3. Typed(to)
  BY <1>1, <1>2 DEF Typed, PCs, Ending, Migrating
<1>4. Releasing(to)
  BY <1>1, <1>2, Appended DEF Releasing, Ending
<1> QED
  BY <1>2, <1>3, <1>4 DEF Views, Writing, Enforces, Enforcing, Describing

LEMMA LoadMigrationsStep ==
    ASSUME StartInv, NEW i \in Instances, LoadMigrations(i) PROVE StartInv'
<1>1. inst[i].pc = "load" /\ inst[i].pc \in Open
  BY DEF LoadMigrations, Open, PCs, Writing, Ending
<1>2. \/ Fails(i) \/ Goes(i, "migrate")
      \/ Goes(i, "parse") /\ Releases[inst[i].release].migrations = <<>>
  BY DEF LoadMigrations, Release
<1>3. CASE Goes(i, "migrate")
  <2>1. "migrate" \in Open \ {"policies", "describing"} /\ "migrate" \in Early /\ "migrate" \notin Enforcing /\ "load" \in Migrating
    BY DEF Open, PCs, Writing, Ending, Early, Enforcing, Migrating
  <2> QED
    BY <1>1, <1>3, <2>1, GoneFrom
<1>4. CASE Goes(i, "parse") /\ Releases[inst[i].release].migrations = <<>>
  <2>1. /\ inst[i].pc \notin Writing \cup Ending \cup {"down"} /\ inst[i].pc # "running"
        /\ "parse" \in PCs \ (Writing \cup {"policies", "describing", "running", "failed", "stopped", "down"})
        /\ "parse" \notin Enforcing /\ "parse" \notin Migrating
    BY <1>1 DEF PCs, Writing, Ending, Enforcing, Migrating
  <2> QED
    BY <1>4, <2>1, Gone
<1> QED
  BY <1>1, <1>2, <1>3, <1>4, FailsFrom

\* What is applied are migrations, and everything else is as it was.
LEMMA RunMigrationsStep ==
    ASSUME StartInv, NEW i \in Instances, RunMigrations(i) PROVE StartInv'
<1>1. inst[i].pc = "migrate" /\ inst[i].pc \in Open
  BY DEF RunMigrations, Open, PCs, Writing, Ending
<1>2. /\ Globals /\ Typed(inst[i]) /\ Releasing(inst[i]) /\ DOMAIN inst[i] = Fields
      /\ inst[i].pc \in Writing <=> writer = i
  BY Of
<1> DEFINE modules == Releases[inst[i].release].migrations
           k       == inst[i].migrated + 1
<1>3. CASE inst[i].migrated = Len(modules)
  <2>1. Goes(i, "describe")
    BY <1>3 DEF RunMigrations, Release
  <2>2. "describe" \in Open \ {"policies", "describing"} /\ "describe" \in Early
        /\ "describe" \notin Enforcing /\ "describe" \notin Migrating
    BY DEF Open, PCs, Writing, Ending, Early, Enforcing, Migrating
  <2> QED
    BY <1>1, <2>1, <2>2, GoneFrom
<1>4. CASE inst[i].migrated # Len(modules)
  <2>1. PICK applied, to :
           /\ applied \subseteq Pending(i)
           /\ db' = [db EXCEPT !.history = @ \cup applied]
           /\ Set(i, to) /\ UNCHANGED <<writer, synced, redescribed, resynced, starts>>
           /\ to = [inst[i] EXCEPT !.migrated = @ + 1] \/ to = Failing(i)
    BY <1>4 DEF RunMigrations, Release, ghosts
  <2>2. modules \in Seq([name : STRING, versions : SUBSET [source : STRING, version : STRING]])
    BY <1>1, <1>2, StartAssumption DEF Typed
  <2>3. k \in 1..Len(modules) /\ Len(modules) \in Nat
    BY <1>1, <1>2, <1>4, <2>2 DEF Typed, Migrating
  <2>4. Pending(i) \subseteq Applied
    <3>1. modules[k] \in [name : STRING, versions : SUBSET [source : STRING, version : STRING]]
      <4> DEFINE R == [name : STRING, versions : SUBSET [source : STRING, version : STRING]]
      <4>1. modules \in Seq(R)
        BY <2>2
      <4> HIDE DEF modules, k, R
      <4>2. modules[k] \in R
        BY <2>3, <4>1
      <4> QED
        BY <4>2 DEF R
    <3>2. \A v \in modules[k].versions : v.source \in STRING /\ v.version \in STRING
      BY <3>1
    <3>3. modules[k].name \in STRING
      BY <3>1
    <3>4. Pending(i) = {[module |-> modules[k].name, source |-> v.source, version |-> v.version] :
                          v \in {w \in modules[k].versions : w.source \in Clients(i)}} \ db.history
      BY DEF Pending, Release
    <3> HIDE DEF modules, k
    <3> QED
      BY <3>2, <3>3, <3>4 DEF Applied
  <2>5. Contents(db)
    BY <1>2 DEF Globals
  <2>6. /\ Contents(db') /\ db'.apis = db.apis /\ db'.policies = db.policies
        /\ db'.history = db.history \cup applied /\ db'.i18n = db.i18n
        /\ Copied(db) => Copied(db')
        /\ Ruled(db) => Ruled(db')
    <3>1. /\ Contents(db') /\ db'.apis = db.apis /\ db'.policies = db.policies
          /\ db'.tenants = db.tenants /\ db'.roles = db.roles /\ db'.menus = db.menus
          /\ db'.history = db.history \cup applied /\ db'.i18n = db.i18n
      BY <2>1, <2>5 DEF Contents
    <3> QED
      BY <2>5, <3>1, OtherTables
  <2>7. Globals'
    BY <1>2, <2>1, <2>4, <2>6 DEF Globals, Set, Contents
  <2>8. synced' => Copied(db') /\ Ruled(db')
    BY <2>1, <2>6 DEF StartInv
  <2>9. CASE to = Failing(i)
    <3>1. inst[i].pc \notin Ending \cup {"down", "running"} /\ writer # i
      BY <1>1, <1>2 DEF Ending, Writing
    <3>2. /\ Typed(to) /\ Views(to) /\ Releasing(to) /\ to.pc \notin Writing
          /\ \A apis, policies : Enforces(to, apis, policies)
          /\ \A i18n : Describing(to, i18n)
      BY <2>9, <3>1, FailingGood
    <3> QED
      BY <1>2, <2>1, <2>6, <2>7, <2>8, <3>1, <3>2, Stepped
  <2>10. CASE to = [inst[i] EXCEPT !.migrated = @ + 1]
    <3>1. /\ DOMAIN to = Fields /\ to.pc = "migrate" /\ to.release = inst[i].release /\ to.config = inst[i].config
          /\ to.opened = inst[i].opened /\ to.closed = inst[i].closed /\ to.serving = inst[i].serving
          /\ to.migrated = k
      BY <1>1, <1>2, <2>10 DEF Fields, Fresh
    <3>2. Typed(to)
      BY <1>1, <1>2, <2>3, <3>1 DEF Typed, Migrating
    <3>3. Releasing(to)
      BY <1>1, <1>2, <3>1 DEF Releasing
    <3>4. /\ Views(to) /\ Enforces(to, db'.apis, db'.policies) /\ Describing(to, db'.i18n)
          /\ to.pc \notin Writing /\ writer # i
      BY <1>1, <1>2, <3>1 DEF Views, Writing, Enforces, Enforcing, Describing, Early
    <3> QED
      BY <1>2, <2>1, <2>6, <2>7, <2>8, <3>2, <3>3, <3>4, Stepped
  <2> QED
    BY <2>1, <2>9, <2>10
<1> QED
  BY <1>3, <1>4

LEMMA DescribeReadStep ==
    ASSUME StartInv, NEW i \in Instances, DescribeRead(i) PROVE StartInv'
<1>1. inst[i].pc = "describe" /\ inst[i].pc \in Open
  BY DEF DescribeRead, Open, PCs, Writing, Ending
<1>2. /\ Globals /\ Typed(inst[i]) /\ Releasing(inst[i]) /\ DOMAIN inst[i] = Fields
      /\ inst[i].pc \in Writing <=> writer = i
  BY Of
<1> DEFINE to == [inst[i] EXCEPT !.pc = "describing", !.seen = [history |-> db.history, i18n |-> db.i18n]]
<1>3. \/ Fails(i)
      \/ Goes(i, "parse") /\ Localised(Releases[inst[i].release].readmes) = {}
      \/ /\ Set(i, to) /\ redescribed' = redescribed \ {i}
         /\ UNCHANGED <<db, writer, synced, resynced, starts>>
  BY DEF DescribeRead, Release
<1>4. CASE Goes(i, "parse") /\ Localised(Releases[inst[i].release].readmes) = {}
  <2>1. /\ inst[i].pc \notin Writing \cup Ending \cup {"down"} /\ inst[i].pc # "running"
        /\ "parse" \in PCs \ (Writing \cup {"policies", "describing", "running", "failed", "stopped", "down"})
        /\ "parse" \notin Enforcing /\ "parse" \notin Migrating
    BY <1>1 DEF PCs, Writing, Ending, Enforcing, Migrating
  <2> QED
    BY <1>4, <2>1, Gone
<1>5. CASE /\ Set(i, to) /\ redescribed' = redescribed \ {i}
           /\ UNCHANGED <<db, writer, synced, resynced, starts>>
  <2>1. /\ DOMAIN to = Fields /\ to.pc = "describing" /\ to.release = inst[i].release /\ to.config = inst[i].config
        /\ to.opened = inst[i].opened /\ to.closed = inst[i].closed /\ to.serving = inst[i].serving
        /\ to.migrated = inst[i].migrated /\ to.seen.i18n = db.i18n
    BY <1>1, <1>2 DEF Fields, Fresh
  <2> HIDE DEF to
  <2>2. Typed(to)
    BY <1>1, <1>2, <2>1 DEF Typed, PCs, Migrating
  <2>3. Releasing(to)
    BY <1>1, <1>2, <2>1 DEF Releasing, Ending
  <2>4. /\ Views(to) /\ Enforces(to, db'.apis, db'.policies) /\ Describing(to, db'.i18n)
        /\ to.pc \notin Writing /\ writer # i
    BY <1>1, <1>2, <1>5, <2>1 DEF Views, Writing, Enforces, Enforcing, Describing, Early
  <2>5. Globals'
    BY <1>2, <1>5 DEF Globals, Set, Contents
  <2>6. synced' => Copied(db') /\ Ruled(db')
    BY <1>5 DEF StartInv
  <2> QED
    BY <1>5, <2>2, <2>3, <2>4, <2>5, <2>6, Stepped
<1> QED
  BY <1>1, <1>3, <1>4, <1>5, FailsFrom


LEMMA DescribeWriteStep ==
    ASSUME StartInv, NEW i \in Instances, DescribeWrite(i) PROVE StartInv'
<1>1. inst[i].pc = "describing" /\ inst[i].pc \in Open
  BY DEF DescribeWrite, Open, PCs, Writing, Ending
<1>2. /\ Globals /\ Typed(inst[i]) /\ Releasing(inst[i]) /\ DOMAIN inst[i] = Fields
      /\ inst[i].pc \in Writing <=> writer = i
      /\ i \notin redescribed => Describing(inst[i], db.i18n)
  BY Of
<1> DEFINE readmes == Releases[inst[i].release].readmes
           to      == [inst[i] EXCEPT !.pc = "parse", !.seen = None]
<1>3. \/ Fails(i)
      \/ \E texts \in Texts(readmes) :
            /\ Recorded(texts, inst[i].seen.history)
            /\ db' = [db EXCEPT !.i18n = DescriptionRows(i, texts)]
            /\ Set(i, to) /\ redescribed' = redescribed \cup (Instances \ {i})
            /\ UNCHANGED <<writer, synced, resynced, starts>>
  BY DEF DescribeWrite, Release
<1>4. ASSUME NEW texts \in Texts(readmes), Recorded(texts, inst[i].seen.history),
             db' = [db EXCEPT !.i18n = DescriptionRows(i, texts)],
             Set(i, to), redescribed' = redescribed \cup (Instances \ {i}),
             UNCHANGED <<writer, synced, resynced, starts>>
      PROVE  StartInv'
  <2>1. /\ DOMAIN to = Fields /\ to.pc = "parse" /\ to.release = inst[i].release /\ to.config = inst[i].config
        /\ to.opened = inst[i].opened /\ to.closed = inst[i].closed /\ to.serving = inst[i].serving
        /\ to.migrated = inst[i].migrated
    BY <1>1, <1>2 DEF Fields, Fresh
  <2> HIDE DEF to
  <2>2. Typed(to)
    BY <1>1, <1>2, <2>1 DEF Typed, PCs, Migrating
  <2>3. Releasing(to)
    BY <1>1, <1>2, <2>1 DEF Releasing, Ending
  <2>4. Contents(db)
    BY <1>2 DEF Globals
  <2>5. /\ Contents(db') /\ db'.apis = db.apis /\ db'.policies = db.policies
        /\ db'.tenants = db.tenants /\ db'.roles = db.roles /\ db'.menus = db.menus
        /\ db'.history = db.history /\ db'.i18n = DescriptionRows(i, texts)
    BY <1>4, <2>4 DEF Contents
  <2>6. (Copied(db) => Copied(db')) /\ (Ruled(db) => Ruled(db'))
    BY <2>4, <2>5, OtherTables
  <2>7. ASSUME i \notin redescribed, NEW k \in DOMAIN texts
        PROVE  k \in DOMAIN db'.i18n /\ db'.i18n[k] = texts[k]
    <3> DEFINE seen    == inst[i].seen.i18n
               same(x) == x \in DOMAIN seen /\ seen[x] = texts[x]
               written == {x \in DOMAIN texts : x.of \in inst[i].seen.history /\ ~same(x)}
    <3>1. db'.i18n = [x \in DOMAIN db.i18n \cup written |-> IF x \in written THEN texts[x] ELSE db.i18n[x]]
      BY <2>5 DEF DescriptionRows
    <3>2. seen = db.i18n
      BY <1>1, <1>2, <2>7 DEF Describing
    <3>3. k.of \in inst[i].seen.history
      BY <1>4 DEF Recorded
    <3>4. CASE same(k)
      <4>1. k \notin written /\ k \in DOMAIN db.i18n /\ db.i18n[k] = texts[k]
        BY <3>2, <3>4
      <4> HIDE DEF written
      <4> QED
        BY <3>1, <4>1
    <3>5. CASE ~same(k)
      <4>1. k \in written
        BY <3>3, <3>5
      <4> HIDE DEF written
      <4> QED
        BY <3>1, <4>1
    <3> QED
      BY <3>4, <3>5
  <2>8. i \notin redescribed' => Describing(to, db'.i18n)
    BY <1>4, <2>1, <2>7 DEF Describing
  <2>9. Views(to) /\ Enforces(to, db'.apis, db'.policies) /\ to.pc \notin Writing /\ writer # i
    BY <1>1, <1>2, <2>1 DEF Views, Writing, Enforces, Enforcing
  <2>10. Globals'
    BY <1>2, <1>4, <2>5 DEF Globals, Set, Contents
  <2>11. synced' => Copied(db') /\ Ruled(db')
    BY <1>4, <2>6 DEF StartInv
  <2> QED
    BY <1>4, <2>2, <2>3, <2>5, <2>8, <2>9, <2>10, <2>11, Stepped
<1> QED
  BY <1>1, <1>3, <1>4, FailsFrom

LEMMA ParseDocumentsStep ==
    ASSUME StartInv, NEW i \in Instances, ParseDocuments(i) PROVE StartInv'
<1>1. inst[i].pc = "parse" /\ inst[i].pc \in Open
      /\ "apis" \in Open \ {"policies", "describing"} /\ "parse" \notin Early
      /\ "apis" \notin Enforcing /\ "apis" \notin Migrating
  BY DEF ParseDocuments, Open, PCs, Writing, Ending, Early, Enforcing, Migrating
<1>2. Fails(i) \/ Goes(i, "apis")
  BY DEF ParseDocuments
<1> QED
  BY <1>1, <1>2, FailsFrom, GoneFrom

-----------------------------------------------------------------------------
(* The transaction. *)

LEMMA WritesStep ==
    ASSUME StartInv, NEW i \in Instances, NEW view, NEW p \in Writing, Writes(i, view, p),
           inst[i].pc \in Writing \/ (inst[i].pc = "apis" /\ writer = None),
           Contents(view), p \in {"rules", "commit"} => Copied(view), p = "commit" => Ruled(view)
    PROVE  StartInv'
<1>1. /\ Globals /\ Typed(inst[i]) /\ Releasing(inst[i]) /\ DOMAIN inst[i] = Fields
      /\ inst[i].pc \in Writing <=> writer = i
      /\ i \notin redescribed => Describing(inst[i], db.i18n)
  BY Of
<1> DEFINE to == [inst[i] EXCEPT !.view = view, !.pc = p]
<1>2. Set(i, to) /\ writer' = i /\ UNCHANGED <<db, synced, redescribed, resynced, starts>>
  BY DEF Writes, ghosts
<1>3. /\ DOMAIN to = Fields /\ to.pc = p /\ to.view = view
      /\ to.release = inst[i].release /\ to.config = inst[i].config
      /\ to.opened = inst[i].opened /\ to.closed = inst[i].closed /\ to.serving = inst[i].serving
      /\ to.migrated = inst[i].migrated /\ to.ok = inst[i].ok
  BY <1>1 DEF Fields, Fresh
<1> HIDE DEF to
<1>4. /\ inst[i].pc \notin Early \cup Ending \cup {"running"}
      /\ p \in PCs \ (Early \cup Ending \cup Enforcing \cup Migrating \cup {"policies", "describing"})
  BY DEF Writing, Early, Ending, Enforcing, Migrating, PCs
<1>5. Typed(to)
  BY <1>1, <1>3, <1>4 DEF Typed, Early, Ending
<1>6. Releasing(to)
  <2>1. inst[i].pc # "running" /\ inst[i].closed = <<>> /\ inst[i].serving = {}
    BY <1>1, <1>4 DEF Releasing
  <2>2. p # "failed" /\ p # "stopped"
    BY <1>4 DEF Ending
  <2> QED
    BY <1>1, <1>3, <2>1, <2>2 DEF Releasing
<1>7. Views(to) /\ Enforces(to, db.apis, db.policies)
  BY <1>3, <1>4 DEF Views, Enforces
<1>8. i \notin redescribed => Describing(to, db.i18n)
  BY <1>1, <1>3, <1>4 DEF Describing
<1>9. Globals'
  BY <1>1, <1>2 DEF Globals, Set, Contents
<1>10. synced' => Copied(db') /\ Ruled(db')
  BY <1>2 DEF StartInv
<1>11. \A j \in Instances \ {i} : writer' = j <=> writer = j
  BY <1>1, <1>2, StartAssumption
<1> QED
  BY <1>2, <1>3, <1>5, <1>6, <1>7, <1>8, <1>9, <1>10, <1>11, Stepped

LEMMA RollbackStep ==
    ASSUME StartInv, NEW i \in Instances, inst[i].pc \in Writing, Rollback(i) PROVE StartInv'
<1>1. Set(i, Failing(i)) /\ writer' = None /\ UNCHANGED <<db, synced, redescribed, resynced, starts>>
  BY DEF Rollback, ghosts
<1>2. /\ Globals /\ writer = i /\ inst[i].pc \notin Ending \cup {"down", "running"}
  BY Of DEF Writing, Ending
<1> DEFINE to == Failing(i)
<1>3. /\ Typed(to) /\ Views(to) /\ Releasing(to) /\ to.pc \notin Writing
      /\ \A apis, policies : Enforces(to, apis, policies)
      /\ \A i18n : Describing(to, i18n)
  BY <1>2, FailingGood
<1> HIDE DEF to
<1>4. Globals'
  BY <1>1, <1>2 DEF Globals, Set, Contents
<1>5. synced' => Copied(db') /\ Ruled(db')
  BY <1>1 DEF StartInv
<1>6. (\A j \in Instances \ {i} : writer' = j <=> writer = j) /\ writer' # i
  BY <1>1, <1>2, StartAssumption
<1> QED
  BY <1>1, <1>3, <1>4, <1>5, <1>6, Stepped DEF to

LEMMA ReplaceApisStep ==
    ASSUME StartInv, NEW i \in Instances, ReplaceApis(i) PROVE StartInv'
<1>1. inst[i].pc = "apis" /\ inst[i].pc \in Open /\ "translations" \in Writing \ {"rules", "commit"}
  BY DEF ReplaceApis, Open, PCs, Writing, Ending
<1> DEFINE view == [db EXCEPT !.apis = Parsed[inst[i].release].apis]
<1>2. Fails(i) \/ (writer = None /\ Writes(i, view, "translations"))
  BY DEF ReplaceApis
<1>3. Contents(view)
  BY DEF StartInv, Globals, Contents
<1> HIDE DEF view
<1> QED
  BY <1>1, <1>2, <1>3, FailsFrom, WritesStep

LEMMA ReplaceAllTranslationsStep ==
    ASSUME StartInv, NEW i \in Instances, ReplaceAllTranslations(i) PROVE StartInv'
<1>1. inst[i].pc = "translations" /\ inst[i].pc \in Writing /\ "roles" \in Writing \ {"rules", "commit"}
  BY DEF ReplaceAllTranslations, Writing
<1> DEFINE view == [inst[i].view EXCEPT !.translations = Parsed[inst[i].release].translations]
<1>2. Rollback(i) \/ Writes(i, view, "roles")
  BY DEF ReplaceAllTranslations
<1>3. Contents(inst[i].view)
  BY <1>1, Of DEF Views
<1>4. Contents(view)
  BY <1>3 DEF Contents
<1> HIDE DEF view
<1> QED
  BY <1>1, <1>2, <1>4, RollbackStep, WritesStep

LEMMA SyncRolesStep ==
    ASSUME StartInv, NEW i \in Instances, SyncRoles(i) PROVE StartInv'
<1>1. inst[i].pc = "roles" /\ inst[i].pc \in Writing /\ "rules" \in Writing \ {"commit"}
  BY DEF SyncRoles, Writing
<1> DEFINE view == SyncTenantRoleMenus(inst[i].view)
<1>2. Rollback(i) \/ Writes(i, view, "rules")
  BY DEF SyncRoles
<1>3. Contents(view) /\ Copied(view)
  BY <1>1, Of, CopiedOnce DEF Views
<1> HIDE DEF view
<1> QED
  BY <1>1, <1>2, <1>3, RollbackStep, WritesStep

LEMMA RebuildPolicyDataStep ==
    ASSUME StartInv, NEW i \in Instances, RebuildPolicyData(i) PROVE StartInv'
<1>1. inst[i].pc = "rules" /\ inst[i].pc \in Writing /\ "commit" \in Writing
  BY DEF RebuildPolicyData, Writing
<1> DEFINE view(pick) == [inst[i].view EXCEPT !.policies = buildCasbinRuleList(inst[i].view, pick)]
<1>2. Rollback(i) \/ \E pick \in Picks(inst[i].view) : Writes(i, view(pick), "commit")
  BY DEF RebuildPolicyData
<1>3. Contents(inst[i].view) /\ Copied(inst[i].view)
  BY <1>1, Of DEF Views
<1>4. ASSUME NEW pick \in Picks(inst[i].view) PROVE Contents(view(pick)) /\ Copied(view(pick)) /\ Ruled(view(pick))
  BY <1>3, RulesBuilt
<1> HIDE DEF view
<1> QED
  BY <1>1, <1>2, <1>4, RollbackStep, WritesStep

\* The commit shows a view that was made by itself, beside what others wrote meanwhile.
LEMMA CommitStep ==
    ASSUME StartInv, NEW i \in Instances, Commit(i) PROVE StartInv'
<1>1. inst[i].pc = "commit" /\ inst[i].pc \in Writing
  BY DEF Commit, Writing
<1>2. /\ Globals /\ Typed(inst[i]) /\ Releasing(inst[i]) /\ DOMAIN inst[i] = Fields /\ writer = i
      /\ i \notin redescribed => Describing(inst[i], db.i18n)
      /\ Contents(inst[i].view) /\ Copied(inst[i].view) /\ Ruled(inst[i].view)
  BY <1>1, Of DEF Views
<1> DEFINE view == inst[i].view
           to   == [inst[i] EXCEPT !.pc = "refresh", !.view = None]
<1>3. CASE /\ db' = [view EXCEPT !.history = db.history, !.i18n = db.i18n]
           /\ Set(i, to) /\ writer' = None /\ synced' = TRUE
           /\ resynced' = (resynced \cup Instances) \ {i}
           /\ UNCHANGED <<redescribed, starts>>
  <2>1. /\ DOMAIN to = Fields /\ to.pc = "refresh" /\ to.release = inst[i].release /\ to.config = inst[i].config
        /\ to.opened = inst[i].opened /\ to.closed = inst[i].closed /\ to.serving = inst[i].serving
        /\ to.migrated = inst[i].migrated /\ to.ok = inst[i].ok
    BY <1>1, <1>2 DEF Fields, Fresh
  <2> HIDE DEF to
  <2>2. Typed(to)
    BY <1>1, <1>2, <2>1 DEF Typed, PCs, Migrating
  <2>3. Releasing(to)
    BY <1>1, <1>2, <2>1 DEF Releasing, Ending
  <2>4. /\ Contents(db') /\ db'.apis = view.apis /\ db'.policies = view.policies
        /\ db'.tenants = view.tenants /\ db'.roles = view.roles /\ db'.menus = view.menus
        /\ db'.history = db.history /\ db'.i18n = db.i18n
    BY <1>2, <1>3 DEF Contents
  <2>5. Copied(db') /\ Ruled(db')
    BY <1>2, <2>4, OtherTables
  <2>6. i \notin redescribed' => Describing(to, db'.i18n)
    BY <1>1, <1>2, <1>3, <2>1, <2>4 DEF Describing, Early
  <2>7. Views(to) /\ Enforces(to, db'.apis, db'.policies) /\ to.pc \notin Writing /\ writer' # i
    BY <1>3, <2>1, StartAssumption DEF Views, Writing, Enforces, Enforcing
  <2>8. Globals'
    BY <1>2, <1>3, <2>4 DEF Globals, Set, Contents
  <2>9. \A j \in Instances \ {i} : writer' = j <=> writer = j
    BY <1>2, <1>3, StartAssumption
  <2> QED
    BY <1>3, <2>2, <2>3, <2>4, <2>5, <2>6, <2>7, <2>8, <2>9, Stepped
<1> QED
  BY <1>1, <1>3, RollbackStep DEF Commit


-----------------------------------------------------------------------------
(* After the synchronisation. *)

\* A step that goes on in the same instance, with what it opened, released and serves
\* left alone: it may establish what the rules in memory must be.
LEMMA Refreshed ==
    ASSUME StartInv, NEW i \in Instances, NEW to, Set(i, to),
           UNCHANGED <<db, writer, synced, redescribed, starts>>,
           resynced' = resynced \/ resynced' = resynced \ {i},
           inst[i].pc \in Open \ Early, to.pc \in Open \ Early,
           DOMAIN to = Fields, to.release = inst[i].release, to.config = inst[i].config,
           to.opened = inst[i].opened, to.closed = inst[i].closed, to.serving = inst[i].serving,
           to.migrated = inst[i].migrated, to.ok = inst[i].ok,
           i \notin resynced' => Enforces(to, db.apis, db.policies)
    PROVE  StartInv'
<1>1. /\ Globals /\ Typed(inst[i]) /\ Releasing(inst[i])
      /\ inst[i].pc \in Writing <=> writer = i
      /\ i \notin redescribed => Describing(inst[i], db.i18n)
  BY Of
<1>2. /\ inst[i].pc \notin Ending \cup Writing \cup Early \cup {"down", "running"}
      /\ to.pc \in PCs /\ to.pc \notin Ending \cup Writing \cup Early \cup {"down", "running"}
  BY DEF Open
<1>3. Typed(to)
  BY <1>1, <1>2 DEF Typed, Early, Ending, Migrating
<1>4. Releasing(to)
  <2>1. inst[i].pc # "running" /\ inst[i].closed = <<>> /\ inst[i].serving = {}
    BY <1>1, <1>2 DEF Releasing
  <2>2. to.pc # "failed" /\ to.pc # "stopped"
    BY <1>2 DEF Ending
  <2> QED
    BY <1>1, <2>1, <2>2 DEF Releasing
<1>5. i \notin redescribed => Describing(to, db.i18n)
  BY <1>1, <1>2 DEF Describing, Early
<1>6. Globals'
  BY <1>1 DEF Globals, Set, Contents
<1>7. Views(to) /\ to.pc \notin Writing /\ writer # i
  BY <1>1, <1>2 DEF Views, Writing
<1>8. synced' => Copied(db') /\ Ruled(db')
  BY DEF StartInv
<1> QED
  BY <1>3, <1>4, <1>5, <1>6, <1>7, <1>8, Stepped

LEMMA RefreshApisStep ==
    ASSUME StartInv, NEW i \in Instances, RefreshApis(i) PROVE StartInv'
<1>1. inst[i].pc = "refresh" /\ inst[i].pc \in Open \ Early /\ "policies" \in Open \ Early
  BY DEF RefreshApis, Open, PCs, Writing, Ending, Early
<1> DEFINE to == [inst[i] EXCEPT !.pc = "policies", !.apis = db.apis]
<1>2. CASE /\ Set(i, to) /\ resynced' = resynced \ {i}
           /\ UNCHANGED <<db, writer, synced, redescribed, starts>>
  <2>1. DOMAIN inst[i] = Fields
    BY Of
  <2>2. /\ DOMAIN to = Fields /\ to.pc = "policies" /\ to.apis = db.apis
        /\ to.release = inst[i].release /\ to.config = inst[i].config
        /\ to.opened = inst[i].opened /\ to.closed = inst[i].closed /\ to.serving = inst[i].serving
        /\ to.migrated = inst[i].migrated /\ to.ok = inst[i].ok
    BY <2>1 DEF Fields, Fresh
  <2> HIDE DEF to
  <2>3. Enforces(to, db.apis, db.policies)
    BY <2>2 DEF Enforces, Enforcing
  <2> QED
    BY <1>1, <1>2, <2>2, <2>3, Refreshed
<1> QED
  BY <1>1, <1>2, FailsFrom DEF RefreshApis

LEMMA RefreshRulesStep ==
    ASSUME StartInv, NEW i \in Instances, RefreshRules(i) PROVE StartInv'
<1>1. inst[i].pc = "policies" /\ inst[i].pc \in Open \ Early /\ "mcp" \in Open \ Early
  BY DEF RefreshRules, Open, PCs, Writing, Ending, Early
<1> DEFINE to == [inst[i] EXCEPT !.pc = "mcp", !.memory = Effective(inst[i].apis, db.policies)]
<1>2. Fails(i) \/ Local(i, to)
  BY DEF RefreshRules
<1>3. CASE Local(i, to)
  <2>1. Set(i, to) /\ UNCHANGED <<db, writer, synced, redescribed, resynced, starts>>
    BY <1>3 DEF Local, ghosts
  <2>2. /\ DOMAIN inst[i] = Fields
        /\ i \notin resynced => Enforces(inst[i], db.apis, db.policies)
    BY Of
  <2>3. /\ DOMAIN to = Fields /\ to.pc = "mcp" /\ to.memory = Effective(inst[i].apis, db.policies)
        /\ to.release = inst[i].release /\ to.config = inst[i].config
        /\ to.opened = inst[i].opened /\ to.closed = inst[i].closed /\ to.serving = inst[i].serving
        /\ to.migrated = inst[i].migrated /\ to.ok = inst[i].ok
    BY <2>2 DEF Fields, Fresh
  <2> HIDE DEF to
  <2>4. i \notin resynced => Enforces(to, db.apis, db.policies)
    BY <1>1, <2>2, <2>3 DEF Enforces
  <2> QED
    BY <1>1, <2>1, <2>3, <2>4, Refreshed
<1> QED
  BY <1>1, <1>2, <1>3, FailsFrom

-----------------------------------------------------------------------------
(* Transports and the application. *)

\* What follows an enforcing place enforces the same rules.
LEMMA Served ==
    ASSUME StartInv, NEW i \in Instances, NEW to, Set(i, to),
           UNCHANGED <<db, writer, synced, redescribed, resynced, starts>>,
           inst[i].pc \in Enforcing, to.pc \in Enforcing, DOMAIN to = Fields,
           to.release = inst[i].release, to.config = inst[i].config,
           to.closed = inst[i].closed, to.migrated = inst[i].migrated, to.ok = inst[i].ok,
           to.memory = inst[i].memory, IsSeq(to.opened), to.pc = "running" \/ to.serving = {}
    PROVE  StartInv'
<1>1. /\ Globals /\ Typed(inst[i]) /\ Releasing(inst[i])
      /\ i \notin resynced => Enforces(inst[i], db.apis, db.policies)
      /\ i \notin redescribed => Describing(inst[i], db.i18n)
  BY Of
<1>2. /\ inst[i].pc \notin Ending \cup Writing \cup Early \cup {"policies", "describing"}
      /\ to.pc \in PCs /\ to.pc \notin Ending \cup Writing \cup Early \cup {"policies", "describing"}
  BY DEF Enforcing, Ending, Writing, Early, PCs
<1>3. Typed(to)
  BY <1>1, <1>2 DEF Typed, Early, Ending, Migrating
<1>4. Releasing(to)
  <2>1. inst[i].closed = <<>> /\ IsSeq(inst[i].closed)
    BY <1>1, <1>2 DEF Releasing
  <2>2. to.pc # "failed" /\ to.pc # "stopped"
    BY <1>2 DEF Ending
  <2>3. Len(to.opened) \in Nat
    BY Appended
  <2> QED
    BY <2>1, <2>2, <2>3 DEF Releasing
<1>5. i \notin resynced => Enforces(to, db.apis, db.policies)
  BY <1>1, <1>2 DEF Enforces
<1>6. i \notin redescribed => Describing(to, db.i18n)
  BY <1>1, <1>2 DEF Describing
<1>7. starts' \in 0..MaxStarts
  BY <1>1 DEF Globals
<1> QED
  BY <1>2, <1>3, <1>4, <1>5, <1>6, <1>7, Aside

LEMMA NewTransportStep ==
    ASSUME StartInv, NEW i \in Instances, NEW name \in {"mcp", "sse"}, NEW next \in {"sse", "http"},
           NewTransport(i, name, next)
    PROVE  StartInv'
<1>1. /\ inst[i].pc = name /\ inst[i].pc \in Open /\ inst[i].pc \in Enforcing /\ inst[i].pc # "running"
      /\ next \in Open \ {"policies", "describing"} /\ next \in Enforcing
      /\ inst[i].pc \notin Early /\ next \notin Migrating
  BY DEF NewTransport, Open, PCs, Writing, Ending, Enforcing, Early, Migrating
<1> DEFINE to == [[inst[i] EXCEPT !.opened = Append(@, name)] EXCEPT !.pc = next]
<1>2. Fails(i) \/ Goes(i, next) \/ Local(i, to)
  BY DEF NewTransport
<1>3. CASE Local(i, to)
  <2>1. Set(i, to) /\ UNCHANGED <<db, writer, synced, redescribed, resynced, starts>>
    BY <1>3 DEF Local, ghosts
  <2>2. DOMAIN inst[i] = Fields /\ IsSeq(inst[i].opened) /\ inst[i].serving = {}
    BY <1>1, Of DEF Releasing
  <2>3. /\ DOMAIN to = Fields /\ to.pc = next /\ to.opened = Append(inst[i].opened, name)
        /\ to.release = inst[i].release /\ to.config = inst[i].config
        /\ to.closed = inst[i].closed /\ to.serving = inst[i].serving
        /\ to.migrated = inst[i].migrated /\ to.ok = inst[i].ok /\ to.memory = inst[i].memory
    BY <2>2 DEF Fields, Fresh
  <2> HIDE DEF to
  <2>4. IsSeq(to.opened)
    BY <2>2, <2>3, Appended
  <2> QED
    BY <1>1, <2>1, <2>2, <2>3, <2>4, Served
<1> QED
  BY <1>1, <1>2, <1>3, FailsFrom, GoneFrom

LEMMA NewHTTPServerStep ==
    ASSUME StartInv, NEW i \in Instances, NewHTTPServer(i) PROVE StartInv'
<1>1. /\ inst[i].pc = "http" /\ inst[i].pc \in Open /\ inst[i].pc \in Enforcing
      /\ "grpc" \in Open \ {"policies", "describing"} /\ inst[i].pc \notin Early /\ "grpc" \notin Migrating
      /\ inst[i].pc \notin Writing \cup Ending \cup {"down", "running"}
  BY DEF NewHTTPServer, Open, PCs, Writing, Ending, Enforcing, Early, Migrating
<1> DEFINE to == [Failing(i) EXCEPT !.opened = Append(@, "http")]
<1>2. Fails(i) \/ Goes(i, "grpc") \/ Local(i, to)
  BY DEF NewHTTPServer
<1>3. CASE Local(i, to)
  <2>1. Set(i, to) /\ UNCHANGED <<db, writer, synced, redescribed, resynced, starts>>
    BY <1>3 DEF Local, ghosts
  <2>2. DOMAIN inst[i] = Fields
    BY Of
  <2>3. to = [Failing(i) EXCEPT !.opened = Append(inst[i].opened, "http")]
    BY <2>2 DEF Failing, Fields, Fresh
  <2> HIDE DEF to
  <2> QED
    BY <1>1, <2>1, <2>3, Failed
<1> QED
  BY <1>1, <1>2, <1>3, FailsFrom, GoneFrom

LEMMA NewServerStep ==
    ASSUME StartInv, NEW i \in Instances, NEW name \in {"grpc", "queue", "job"},
           NEW next \in {"queue", "job", "app"}, NewServer(i, name, next)
    PROVE  StartInv'
<1>1. /\ inst[i].pc \in Open /\ inst[i].pc \in Enforcing /\ inst[i].pc \notin Early
      /\ next \in Open \ {"policies", "describing"} /\ next \in Enforcing /\ next \notin Migrating
  BY DEF NewServer, Open, PCs, Writing, Ending, Enforcing, Early, Migrating
<1>2. Fails(i) \/ Goes(i, next)
  BY DEF NewServer
<1> QED
  BY <1>1, <1>2, FailsFrom, GoneFrom

LEMMA RunAppStep ==
    ASSUME StartInv, NEW i \in Instances, RunApp(i) PROVE StartInv'
<1> DEFINE to == [inst[i] EXCEPT !.pc = "running", !.serving = Servers(Config(i))]
<1>1. inst[i].pc \in Enforcing /\ "running" \in Enforcing /\ Local(i, to) /\ inst[i].pc \notin Ending
  BY DEF RunApp, Enforcing, Ending
<1>2. Set(i, to) /\ UNCHANGED <<db, writer, synced, redescribed, resynced, starts>>
  BY <1>1 DEF Local, ghosts
<1>3. DOMAIN inst[i] = Fields /\ IsSeq(inst[i].opened)
  BY Of DEF Releasing
<1>4. /\ DOMAIN to = Fields /\ to.pc = "running" /\ to.opened = inst[i].opened
      /\ to.release = inst[i].release /\ to.config = inst[i].config
      /\ to.closed = inst[i].closed
      /\ to.migrated = inst[i].migrated /\ to.ok = inst[i].ok /\ to.memory = inst[i].memory
  BY <1>3 DEF Fields, Fresh
<1> HIDE DEF to
<1> QED
  BY <1>1, <1>2, <1>3, <1>4, Served

LEMMA StopServerStep ==
    ASSUME StartInv, NEW i \in Instances, StopServer(i) PROVE StartInv'
<1>1. /\ inst[i].pc = "running" /\ inst[i].pc \in Enforcing
      /\ inst[i].pc \notin Writing \cup Ending \cup {"down"} /\ inst[i].pc \notin Early
      /\ "closing" \in PCs \ (Writing \cup {"policies", "describing", "running", "failed", "stopped", "down"})
      /\ "closing" \notin Enforcing /\ "closing" \notin Migrating
  BY DEF StopServer, Enforcing, Writing, Ending, Early, PCs, Migrating
<1>2. CASE inst[i].serving = {} /\ Goes(i, "closing")
  BY <1>1, <1>2, Gone
<1>3. ASSUME NEW name, Local(i, [inst[i] EXCEPT !.serving = @ \ {name}]) PROVE StartInv'
  <2> DEFINE to == [inst[i] EXCEPT !.serving = @ \ {name}]
  <2>1. Set(i, to) /\ UNCHANGED <<db, writer, synced, redescribed, resynced, starts>>
    BY <1>3 DEF Local, ghosts
  <2>2. DOMAIN inst[i] = Fields /\ IsSeq(inst[i].opened)
    BY Of DEF Releasing
  <2>3. /\ DOMAIN to = Fields /\ to.pc = "running" /\ to.opened = inst[i].opened
        /\ to.release = inst[i].release /\ to.config = inst[i].config
        /\ to.closed = inst[i].closed
        /\ to.migrated = inst[i].migrated /\ to.ok = inst[i].ok /\ to.memory = inst[i].memory
    BY <1>1, <2>2 DEF Fields, Fresh
  <2> HIDE DEF to
  <2> QED
    BY <1>1, <2>1, <2>2, <2>3, Served
<1> QED
  BY <1>2, <1>3 DEF StopServer


\* Each cleanup is that of what was opened last among what is left.
LEMMA CleanupStep ==
    ASSUME StartInv, NEW i \in Instances, Cleanup(i) PROVE StartInv'
<1> DEFINE q == inst[i]
<1>1. /\ Globals /\ Typed(q) /\ Releasing(q) /\ DOMAIN q = Fields
      /\ i \notin redescribed => Describing(q, db.i18n)
  BY Of
<1>2. q.pc = "closing" /\ q.pc \notin Writing \cup Early \cup Enforcing \cup {"policies", "describing"}
  BY DEF Cleanup, Writing, Early, Enforcing
<1>3. starts \in 0..MaxStarts
  BY <1>1 DEF Globals
<1>4. CASE /\ Len(q.closed) < Len(q.opened)
           /\ Local(i, [inst[i] EXCEPT !.closed = Append(@, LastOpened(i))])
  <2> DEFINE to == [inst[i] EXCEPT !.closed = Append(@, LastOpened(i))]
  <2>1. Set(i, to) /\ UNCHANGED <<db, writer, synced, redescribed, resynced, starts>>
    BY <1>4 DEF Local, ghosts
  <2>2. /\ DOMAIN to = Fields /\ to.pc = "closing" /\ to.release = q.release /\ to.config = q.config
        /\ to.opened = q.opened /\ to.closed = Append(q.closed, LastOpened(i)) /\ to.serving = q.serving
        /\ to.migrated = q.migrated /\ to.ok = q.ok
    BY <1>1, <1>2 DEF Fields, Fresh
  <2>3. LastOpened(i) = q.opened[Len(q.opened) - Len(q.closed)]
    BY DEF LastOpened
  <2> HIDE DEF to, q
  <2>4. Typed(to)
    BY <1>1, <1>2, <2>2 DEF Typed, PCs, Migrating
  <2>5. Releasing(to)
    <3> DEFINE last == LastOpened(i)
               was  == q.closed
    <3>1. IsSeq(was) /\ IsSeq(q.opened) /\ Len(was) < Len(q.opened) /\ Len(q.opened) \in Nat
      BY <1>1, <1>4, Appended DEF Releasing
    <3>2. \A k \in DOMAIN was : was[k] = q.opened[Len(q.opened) - k + 1]
      BY <1>1 DEF Releasing
    <3>3. last = q.opened[Len(q.opened) - (Len(was) + 1) + 1]
      <4>1. Len(was) \in Nat
        BY <3>1, Appended
      <4>2. Len(q.opened) - (Len(was) + 1) + 1 = Len(q.opened) - Len(was)
        BY <3>1, <4>1
      <4> QED
        BY <2>3, <4>2
    <3> HIDE DEF last, was
    <3>4. /\ IsSeq(Append(was, last)) /\ Len(Append(was, last)) = Len(was) + 1 /\ Len(was) \in Nat
          /\ DOMAIN was = 1..Len(was) /\ DOMAIN Append(was, last) = 1..Len(was) + 1
          /\ Append(was, last)[Len(was) + 1] = last
          /\ \A k \in 1..Len(was) : Append(was, last)[k] = was[k]
      BY <3>1, Appended
    <3>5. to.closed = Append(was, last)
      BY <2>2 DEF was, last
    <3>6. \A k \in DOMAIN to.closed : to.closed[k] = q.opened[Len(q.opened) - k + 1]
      BY <3>2, <3>3, <3>4, <3>5
    <3>7. Len(to.closed) <= Len(to.opened)
      BY <2>2, <3>1, <3>4, <3>5
    <3>8. q.serving = {}
      BY <1>1, <1>2 DEF Releasing
    <3> QED
      BY <2>2, <3>1, <3>4, <3>5, <3>6, <3>7, <3>8 DEF Releasing, Ending
  <2>6. Enforces(to, db.apis, db.policies)
    BY <2>2 DEF Enforces, Enforcing
  <2>7. i \notin redescribed => Describing(to, db.i18n)
    BY <1>1, <1>2, <2>2 DEF Describing
  <2>8. q.pc \notin Writing /\ to.pc \notin Writing
    BY <1>2, <2>2 DEF Writing
  <2> QED
    BY <1>3, <2>1, <2>4, <2>5, <2>6, <2>7, <2>8, Aside DEF q
<1>5. CASE /\ Len(q.closed) >= Len(q.opened)
           /\ \E p \in {"stopped", "failed"} : Goes(i, p)
  <2>1. PICK p \in {"stopped", "failed"} : Goes(i, p)
    BY <1>5
  <2> DEFINE to == [inst[i] EXCEPT !.pc = p]
  <2>2. Set(i, to) /\ UNCHANGED <<db, writer, synced, redescribed, resynced, starts>>
    BY <2>1 DEF Goes, Local, ghosts
  <2>3. /\ DOMAIN to = Fields /\ to.pc = p /\ to.release = q.release /\ to.config = q.config
        /\ to.opened = q.opened /\ to.closed = q.closed /\ to.serving = q.serving
        /\ to.migrated = q.migrated /\ to.ok = q.ok
    BY <1>1 DEF Fields, Fresh
  <2> HIDE DEF to, q
  <2>4. Typed(to)
    BY <1>1, <1>2, <2>3 DEF Typed, PCs, Migrating
  <2>5. Len(q.closed) = Len(q.opened)
    <3>1. IsSeq(q.opened) /\ IsSeq(q.closed) /\ Len(q.closed) <= Len(q.opened)
      BY <1>1 DEF Releasing
    <3>2. Len(q.opened) \in Nat /\ Len(q.closed) \in Nat
      BY <3>1, Appended
    <3> QED
      BY <1>5, <3>1, <3>2
  <2>6. Releasing(to)
    BY <1>1, <1>2, <2>3, <2>5 DEF Releasing, Ending
  <2>7. Enforces(to, db.apis, db.policies)
    BY <2>3 DEF Enforces, Enforcing
  <2>8. i \notin redescribed => Describing(to, db.i18n)
    BY <1>1, <1>2, <2>3 DEF Describing
  <2>9. q.pc \notin Writing /\ to.pc \notin Writing
    BY <1>2, <2>3 DEF Writing
  <2> QED
    BY <1>3, <2>2, <2>4, <2>6, <2>7, <2>8, <2>9, Aside DEF q
<1>6. Len(q.closed) \in Nat /\ Len(q.opened) \in Nat
  BY <1>1, Appended DEF Releasing
<1>7. \/ /\ Len(q.closed) < Len(q.opened)
         /\ Local(i, [inst[i] EXCEPT !.closed = Append(@, LastOpened(i))])
      \/ /\ ~(Len(q.closed) < Len(q.opened))
         /\ Goes(i, "stopped") \/ Goes(i, "failed")
  BY DEF Cleanup
<1> HIDE DEF q
<1> QED
  BY <1>4, <1>5, <1>6, <1>7

-----------------------------------------------------------------------------
(* The invariant. *)

LEMMA InitInv == Init => StartInv
<1> SUFFICES ASSUME Init PROVE StartInv
  OBVIOUS
<1>1. /\ db \in Databases /\ synced = FALSE /\ writer = None /\ starts = 0
      /\ redescribed = {} /\ resynced = {} /\ inst = [i \in Instances |-> Fresh]
  BY DEF Init
<1>2. Globals
  <2>1. Contents(db) /\ db.history \subseteq Applied
    BY <1>1, StartAssumption
  <2>2. starts \in 0..MaxStarts
    BY <1>1, StartAssumption
  <2>3. DOMAIN inst = Instances
    BY <1>1
  <2> QED
    BY <1>1, <2>1, <2>2, <2>3 DEF Globals
<1>3. ASSUME NEW i \in Instances
      PROVE  /\ inst[i] = Fresh /\ inst[i].pc \notin Writing /\ writer # i
  BY <1>1, StartAssumption, FreshGood DEF Writing
<1> QED
  BY <1>1, <1>2, <1>3, FreshGood DEF StartInv

LEMMA StepInv == StartInv /\ [Next]_vars => StartInv'
<1> SUFFICES ASSUME StartInv, [Next]_vars PROVE StartInv'
  OBVIOUS
<1>1. CASE UNCHANGED vars
  <2>1. UNCHANGED <<db, synced, redescribed, resynced, writer, inst, starts>>
    BY <1>1 DEF vars
  <2> QED
    BY <2>1 DEF StartInv, Globals, Copied, Ruled, Contents
<1>2. ASSUME NEW i \in Instances, Steps(i) PROVE StartInv'
  <2>1. CASE NewTransport(i, "mcp", "sse")
    BY <2>1, NewTransportStep
  <2>2. CASE NewTransport(i, "sse", "http")
    BY <2>2, NewTransportStep
  <2>3. CASE NewServer(i, "grpc", "queue")
    BY <2>3, NewServerStep
  <2>4. CASE NewServer(i, "queue", "job")
    BY <2>4, NewServerStep
  <2>5. CASE NewServer(i, "job", "app")
    BY <2>5, NewServerStep
  <2> QED
    BY <1>2, <2>1, <2>2, <2>3, <2>4, <2>5, NewClientsStep, LoadMigrationsStep, RunMigrationsStep, DescribeReadStep,
       DescribeWriteStep, ParseDocumentsStep, ReplaceApisStep, ReplaceAllTranslationsStep, SyncRolesStep,
       RebuildPolicyDataStep, CommitStep, RefreshApisStep, RefreshRulesStep, NewHTTPServerStep,
       RunAppStep, StopServerStep, CleanupStep DEF Steps
<1> QED
  BY <1>1, <1>2, StartStep, CrashStep DEF Next

\* Whatever instances start, fail and crash in whatever order: a transaction's view has
\* what its steps have established, what is enforced is what was read, and what is
\* released is what was opened, backwards.
THEOREM StartInvariant == Spec => []StartInv
<1>1. Init => StartInv
  BY InitInv
<1>2. StartInv /\ [Next]_vars => StartInv'
  BY StepInv
<1> QED
  BY <1>1, <1>2, PTL DEF Spec

\* The variables keep their types.
THEOREM TypeCorrect == Spec => []TypeOK
<1>1. StartInv => TypeOK
  <2> SUFFICES ASSUME StartInv PROVE TypeOK
    OBVIOUS
  <2>1. Globals
    BY DEF StartInv
  <2>2. ASSUME NEW i \in Instances
        PROVE  /\ Typed(inst[i]) /\ Len(inst[i].closed) <= Len(inst[i].opened)
               /\ inst[i].pc \in Writing <=> writer = i
    BY DEF StartInv, Releasing
  <2> QED
    BY <2>1, <2>2 DEF TypeOK, Globals, Typed, Fields, Writing
<1> QED
  BY <1>1, StartInvariant, PTL

\* Once a synchronisation has committed, the rules in the database are those of the
\* roles, menus and interfaces in it, whatever fails, crashes or starts beside it
\* (resource.go:93, base_tenant.go:33).
THEOREM RulesAreThoseOfRoles == Spec => []RulesMatchRoles
<1>1. StartInv => RulesMatchRoles
  BY DEF StartInv, RulesMatchRoles, Copied, Ruled
<1> QED
  BY <1>1, StartInvariant, PTL

\* An instance enforces the rules of the database as long as no other one has
\* synchronised since it began to read them (RefreshPolicy).
THEOREM MemoryIsCurrent == Spec => []MemoryFollows
<1>1. StartInv => MemoryFollows
  BY DEF StartInv, MemoryFollows, Enforces, Enforcing
<1> QED
  BY <1>1, StartInvariant, PTL

\* An instance past its descriptions has recorded every one of them, unless another one
\* has written some since it read them (syncDescriptionTranslations).
THEOREM DescriptionsKept == Spec => []DescriptionsRecorded
<1>1. StartInv => DescriptionsRecorded
  BY DEF StartInv, DescriptionsRecorded, Describing, Early, Release
<1> QED
  BY <1>1, StartInvariant, PTL

\* What an instance opened is released once, the last first, after its servers have
\* stopped (NewClients, client.go:46).
THEOREM ReleasesBackwards == Spec => []ReleasedInReverse
<1>1. StartInv => ReleasedInReverse
  <2> SUFFICES ASSUME StartInv, NEW i \in Instances
               PROVE  /\ inst[i].closed # <<>> => inst[i].serving = {}
                      /\ \A k \in DOMAIN inst[i].closed : inst[i].closed[k] = Reverse(inst[i].opened)[k]
                      /\ inst[i].pc \in {"failed", "stopped"} => Len(inst[i].closed) = Len(inst[i].opened)
    BY DEF ReleasedInReverse
  <2> DEFINE q == inst[i]
  <2>1. Releasing(q)
    BY DEF StartInv
  <2> HIDE DEF q
  <2>2. /\ DOMAIN q.closed = 1..Len(q.closed) /\ Len(q.closed) <= Len(q.opened)
        /\ Len(q.closed) \in Nat /\ Len(q.opened) \in Nat
    BY <2>1, Appended DEF Releasing
  <2>3. ASSUME NEW k \in DOMAIN q.closed PROVE q.closed[k] = Reverse(q.opened)[k]
    <3>1. k \in 1..Len(q.opened)
      BY <2>2
    <3>2. Reverse(q.opened)[k] = q.opened[Len(q.opened) - k + 1]
      BY <2>2, <3>1 DEF Reverse
    <3> QED
      BY <2>1, <3>2 DEF Releasing
  <2>4. q.closed # <<>> => q.serving = {}
    BY <2>1 DEF Releasing, Ending
  <2>5. q.pc \in {"failed", "stopped"} => Len(q.closed) = Len(q.opened)
    BY <2>1 DEF Releasing
  <2> QED
    BY <2>3, <2>4, <2>5 DEF q
<1> QED
  BY <1>1, StartInvariant, PTL

-----------------------------------------------------------------------------
(* The interfaces of a document. *)

LEMMA ImageFinite ==
    ASSUME NEW S, IsFiniteSet(S), NEW f
    PROVE  IsFiniteSet({f[x] : x \in S})
<1> DEFINE T == {f[x] : x \in S}
           g == [x \in S |-> f[x]]
<1>1. g \in Surjection(S, T)
  BY DEF Surjection
<1> HIDE DEF g, T
<1>2. IsFiniteSet(T)
  BY <1>1, FS_Surjection, Zenon
<1> QED
  BY <1>2 DEF T

LEMMA PackagesFinite ==
    ASSUME NEW op, IsFiniteSet(op.refs)
    PROVE  IsFiniteSet(operationProtoPackages(op))
<1> DEFINE f == [ref \in op.refs |-> protoPackageFromSchemaRef(ref)]
           T == {f[ref] : ref \in op.refs}
<1>1. IsFiniteSet(T)
  BY ImageFinite, Zenon
<1>2. T = {protoPackageFromSchemaRef(ref) : ref \in op.refs}
  OBVIOUS
<1>3. operationProtoPackages(op) \in SUBSET T
  BY <1>2, Zenon DEF operationProtoPackages
<1> QED
  BY <1>1, <1>3, FS_Subset

\* What several operations refer to.
LEMMA ReferredFinite ==
    ASSUME NEW ops, IsFiniteSet(ops), \A op \in ops : IsFiniteSet(op.refs)
    PROVE  IsFiniteSet(UNION {operationProtoPackages(op) : op \in ops})
<1> DEFINE f == [op \in ops |-> operationProtoPackages(op)]
           T == {f[op] : op \in ops}
<1>1. IsFiniteSet(T)
  BY ImageFinite, Zenon
<1>2. T = {operationProtoPackages(op) : op \in ops}
  OBVIOUS
<1>3. \A packages \in T : IsFiniteSet(packages)
  BY <1>2, PackagesFinite
<1> HIDE DEF T
<1>4. IsFiniteSet(UNION T)
  BY <1>1, <1>3, FS_UNION
<1> QED
  BY <1>2, <1>4

LEMMA InferredFinite ==
    ASSUME NEW ops, IsFiniteSet(ops), \A op \in ops : IsFiniteSet(op.refs), NEW key \in DOMAIN Inferred(ops)
    PROVE  IsFiniteSet(Inferred(ops)[key])
<1> DEFINE keyed == {op \in ops : servicePackageKey(op) # <<>>}
           mine  == {op \in keyed : servicePackageKey(op) = key}
           near  == {op \in keyed : openAPITerminal(op.path) = key[1]}
           ofService  == UNION {operationProtoPackages(op) : op \in mine}
           ofTerminal == UNION {operationProtoPackages(op) : op \in near}
<1>1. mine \in SUBSET ops /\ near \in SUBSET ops
  OBVIOUS
<1>2. IsFiniteSet(mine) /\ IsFiniteSet(near)
  BY <1>1, FS_Subset
<1>3. Inferred(ops)[key] = IF ofService # {} THEN ofService ELSE ofTerminal
  BY DEF Inferred
<1> HIDE DEF mine, near
<1>4. IsFiniteSet(ofService)
  BY <1>1, <1>2, ReferredFinite
<1>5. IsFiniteSet(ofTerminal)
  BY <1>1, <1>2, ReferredFinite
<1> QED
  BY <1>3, <1>4, <1>5

\* A service the map names is in the package the map says: of a single candidate.
LEMMA OnlyCandidate ==
    ASSUME NEW doc, Attributable(doc), IsFiniteSet(doc.ops), \A op \in doc.ops : IsFiniteSet(op.refs),
           NEW op \in pathOperations(doc), servicePackageKey(op) \in DOMAIN buildServicePackageMap(doc),
           servicePackageKey(op) # <<>>
    PROVE  buildServicePackageMap(doc)[servicePackageKey(op)] = op.package
<1> DEFINE ops == pathOperations(doc)
           inferred == Inferred(ops)
           key == servicePackageKey(op)
<1>1. ops \in SUBSET doc.ops
  BY DEF pathOperations
<1>2. IsFiniteSet(ops) /\ \A o \in ops : IsFiniteSet(o.refs)
  BY <1>1, FS_Subset
<1>3. /\ key \in DOMAIN inferred /\ Cardinality(inferred[key]) = 1
      /\ buildServicePackageMap(doc)[key] = CHOOSE p \in inferred[key] : TRUE
  BY Zenon DEF buildServicePackageMap
<1>4. inferred[key] # {} => op.package \in inferred[key]
  BY Zenon DEF Attributable
<1> HIDE DEF ops, key
<1>5. IsFiniteSet(inferred[key])
  BY <1>2, <1>3, InferredFinite
<1> HIDE DEF inferred
<1>6. PICK p : inferred[key] = {p}
  BY <1>3, <1>5, FS_Singleton
<1> QED
  BY <1>3, <1>4, <1>6 DEF key

\* So what is parsed from the documents of a release is recorded under its own package.
LEMMA ParsedOwn ==
    ASSUME NEW r \in DOMAIN Releases, NEW api \in Parsed[r].apis
    PROVE  OwnPackage(api)
<1>1. PICK doc \in Releases[r].documents : api \in OpenAPIDataToBaseAPI(doc)
  BY DEF Parsed
<1> DEFINE packages == buildServicePackageMap(doc)
           tags == buildTagsMap(doc, packages)
<1>2. PICK op \in pathOperations(doc) : /\ Described(op) /\ servicePackageKey(op) \in DOMAIN packages
                                        /\ api = parseOperation(op, tags, packages)
  BY <1>1, Zenon DEF OpenAPIDataToBaseAPI
<1>3. /\ Attributable(doc) /\ IsFiniteSet(doc.ops) /\ \A o \in doc.ops : IsFiniteSet(o.refs)
      /\ op \in doc.ops /\ op.package \in Seq(STRING) /\ op.service \in STRING /\ op.rpc \in STRING
  <2>1. op \in doc.ops
    BY DEF pathOperations
  <2> QED
    BY <2>1, DocumentsAssumption
<1>4. packages[servicePackageKey(op)] = op.package
  BY <1>2, <1>3, OnlyCandidate DEF Described
<1>5. api.operation = Append(Append(op.package, op.service), op.rpc) /\ api.path = op.path
  BY <1>2, <1>4 DEF parseOperation
<1>6. Append(Append(op.package, op.service), op.rpc) = op.package \o <<op.service, op.rpc>>
  BY <1>3
<1> QED
  BY <1>3, <1>5, <1>6 DEF OwnPackage

-----------------------------------------------------------------------------
(* And stays so: in the database and in the view of the one transaction. *)

Owned(apis) == \A api \in apis : OwnPackage(api)

ApisInv == Owned(db.apis) /\ (writer # None => Owned(inst[writer].view.apis))

\* A step that writes no interfaces, of an instance whose transaction is not, or no
\* longer, open.
LEMMA ApisAlone ==
    ASSUME StartInv, ApisInv, NEW i \in Instances, NEW to, Set(i, to), db'.apis = db.apis,
           writer' = writer \/ writer' = None, writer' # i
    PROVE  ApisInv'
<1>1. writer' # None => inst'[writer'] = inst[writer] /\ writer' = writer
  BY DEF Set, StartInv, Globals
<1> QED
  BY <1>1 DEF ApisInv, Owned, OwnPackage

\* One step of the transaction.
LEMMA ApisWritten ==
    ASSUME StartInv, ApisInv, NEW i \in Instances, NEW view, NEW p, Writes(i, view, p), Owned(view.apis)
    PROVE  ApisInv'
<1>1. inst'[i] = [inst[i] EXCEPT !.view = view, !.pc = p] /\ writer' = i /\ db' = db
  BY DEF Writes, Set, StartInv, Globals
<1>2. inst'[i].view = view
  BY <1>1, Of DEF Fields, Fresh
<1> QED
  BY <1>1, <1>2 DEF ApisInv, Owned, OwnPackage

LEMMA ApisLocal ==
    ASSUME StartInv, ApisInv, NEW i \in Instances, writer # i, NEW to, Local(i, to)
    PROVE  ApisInv'
  BY ApisAlone DEF Local

LEMMA ApisRolledBack ==
    ASSUME StartInv, ApisInv, NEW i \in Instances, Rollback(i)
    PROVE  ApisInv'
<1>1. writer' # i
  BY StartAssumption DEF Rollback
<1> QED
  BY <1>1, ApisAlone DEF Rollback

\* The roles are another table.
LEMMA RolesOnly ==
    ASSUME NEW d, Contents(d)
    PROVE  SyncTenantRoleMenus(d).apis = d.apis
<1>1. ASSUME NEW roles PROVE [d EXCEPT !.roles = roles].apis = d.apis
  BY DEF Contents
<1> QED
  BY <1>1 DEF SyncTenantRoleMenus

LEMMA ApisInTransaction ==
    ASSUME StartInv, ApisInv, NEW i \in Instances, inst[i].pc \in Writing \cup {"apis"},
           ReplaceApis(i) \/ ReplaceAllTranslations(i) \/ SyncRoles(i) \/ RebuildPolicyData(i) \/ Commit(i)
    PROVE  ApisInv'
<1>1. /\ inst[i].pc \in Writing <=> writer = i
      /\ inst[i].pc \in Writing => Contents(inst[i].view) /\ Owned(inst[i].view.apis)
      /\ Contents(db) /\ Typed(inst[i])
  BY Of, StartAssumption DEF Views, Globals, ApisInv
<1>2. CASE ReplaceApis(i)
  <2>1. inst[i].pc = "apis"
    BY <1>2 DEF ReplaceApis
  <2>2. inst[i].release \in DOMAIN Releases /\ writer # i
    BY <1>1, <2>1 DEF Typed, Writing
  <2>3. CASE Fails(i)
    BY <2>2, <2>3, ApisLocal DEF Fails
  <2>4. CASE Writes(i, [db EXCEPT !.apis = Parsed[inst[i].release].apis], "translations")
    <3>1. [db EXCEPT !.apis = Parsed[inst[i].release].apis].apis = Parsed[inst[i].release].apis
      BY <1>1 DEF Contents
    <3>2. Owned(Parsed[inst[i].release].apis)
      BY <2>2, ParsedOwn DEF Owned
    <3> QED
      BY <2>4, <3>1, <3>2, ApisWritten
  <2> QED
    BY <1>2, <2>3, <2>4 DEF ReplaceApis
<1>3. CASE ReplaceAllTranslations(i)
  <2>1. inst[i].pc \in Writing
    BY <1>3 DEF ReplaceAllTranslations, Writing
  <2> DEFINE view == [inst[i].view EXCEPT !.translations = Parsed[inst[i].release].translations]
  <2>2. view.apis = inst[i].view.apis
    BY <1>1, <2>1 DEF Contents
  <2>3. Rollback(i) \/ Writes(i, view, "roles")
    BY <1>3 DEF ReplaceAllTranslations
  <2> HIDE DEF view
  <2> QED
    BY <1>1, <2>1, <2>2, <2>3, ApisWritten, ApisRolledBack
<1>4. CASE SyncRoles(i)
  <2>1. inst[i].pc \in Writing
    BY <1>4 DEF SyncRoles, Writing
  <2> DEFINE view == SyncTenantRoleMenus(inst[i].view)
  <2>2. view.apis = inst[i].view.apis
    BY <1>1, <2>1, RolesOnly
  <2>3. Rollback(i) \/ Writes(i, view, "rules")
    BY <1>4 DEF SyncRoles
  <2> HIDE DEF view
  <2> QED
    BY <1>1, <2>1, <2>2, <2>3, ApisWritten, ApisRolledBack
<1>5. CASE RebuildPolicyData(i)
  <2>1. inst[i].pc \in Writing
    BY <1>5 DEF RebuildPolicyData, Writing
  <2>2. ASSUME NEW rules PROVE [inst[i].view EXCEPT !.policies = rules].apis = inst[i].view.apis
    BY <1>1, <2>1 DEF Contents
  <2>3. Rollback(i) \/ \E rules : Writes(i, [inst[i].view EXCEPT !.policies = rules], "commit")
    BY <1>5 DEF RebuildPolicyData
  <2>4. ASSUME NEW rules, Writes(i, [inst[i].view EXCEPT !.policies = rules], "commit") PROVE ApisInv'
    <3> DEFINE view == [inst[i].view EXCEPT !.policies = rules]
    <3>1. Writes(i, view, "commit") /\ Owned(view.apis)
      BY <1>1, <2>1, <2>2, <2>4
    <3> HIDE DEF view
    <3> QED
      BY <3>1, ApisWritten
  <2> QED
    BY <2>3, <2>4, ApisRolledBack
<1>6. CASE Commit(i)
  <2>1. inst[i].pc \in Writing
    BY <1>6 DEF Commit, Writing
  <2>2. CASE db' = [inst[i].view EXCEPT !.history = db.history, !.i18n = db.i18n] /\ writer' = None
    <3>1. db'.apis = inst[i].view.apis
      BY <1>1, <2>1, <2>2 DEF Contents
    <3> QED
      BY <1>1, <2>1, <2>2, <3>1 DEF ApisInv, Owned, OwnPackage
  <2> QED
    BY <1>6, <2>2, ApisRolledBack DEF Commit
<1> QED
  BY <1>2, <1>3, <1>4, <1>5, <1>6

\* The steps that only move the instance.
LEMMA OnlyMoves ==
    ASSUME NEW i \in Instances,
           \/ NewClients(i) \/ LoadMigrations(i) \/ ParseDocuments(i) \/ RefreshRules(i)
           \/ NewTransport(i, "mcp", "sse") \/ NewTransport(i, "sse", "http") \/ NewHTTPServer(i)
           \/ NewServer(i, "grpc", "queue") \/ NewServer(i, "queue", "job") \/ NewServer(i, "job", "app")
           \/ RunApp(i) \/ StopServer(i) \/ Cleanup(i)
    PROVE  inst[i].pc \notin Writing /\ \E to : Local(i, to)
<1>1. ASSUME Fails(i) \/ \E p : Goes(i, p) PROVE \E to : Local(i, to)
  BY <1>1, Zenon DEF Fails, Goes
<1>2. CASE NewClients(i)
  <2>1. inst[i].pc = "clients" /\ (Fails(i) \/ (\E p : Goes(i, p)) \/ \E to : Local(i, to))
    BY <1>2, Zenon DEF NewClients
  <2> QED
    BY <1>1, <2>1 DEF Writing
<1>3. CASE LoadMigrations(i)
  <2>1. inst[i].pc = "load" /\ (Fails(i) \/ \E p : Goes(i, p))
    BY <1>3, Zenon DEF LoadMigrations
  <2> QED
    BY <1>1, <2>1 DEF Writing
<1>4. CASE ParseDocuments(i)
  <2>1. inst[i].pc = "parse" /\ (Fails(i) \/ \E p : Goes(i, p))
    BY <1>4, Zenon DEF ParseDocuments
  <2> QED
    BY <1>1, <2>1 DEF Writing
<1>5. CASE RefreshRules(i)
  <2>1. inst[i].pc = "policies" /\ (Fails(i) \/ \E to : Local(i, to))
    BY <1>5, Zenon DEF RefreshRules
  <2> QED
    BY <1>1, <2>1 DEF Writing
<1>6. ASSUME NEW name \in {"mcp", "sse"}, NEW next, NewTransport(i, name, next)
      PROVE  inst[i].pc \notin Writing /\ \E to : Local(i, to)
  <2>1. inst[i].pc = name /\ (Fails(i) \/ (\E p : Goes(i, p)) \/ \E to : Local(i, to))
    BY <1>6, Zenon DEF NewTransport
  <2> QED
    BY <1>1, <2>1 DEF Writing
<1>7. CASE NewHTTPServer(i)
  <2>1. inst[i].pc = "http" /\ (Fails(i) \/ (\E p : Goes(i, p)) \/ \E to : Local(i, to))
    BY <1>7, Zenon DEF NewHTTPServer
  <2> QED
    BY <1>1, <2>1 DEF Writing
<1>8. ASSUME NEW name \in {"grpc", "queue", "job"}, NEW next, NewServer(i, name, next)
      PROVE  inst[i].pc \notin Writing /\ \E to : Local(i, to)
  <2>1. inst[i].pc = name /\ (Fails(i) \/ \E p : Goes(i, p))
    BY <1>8, Zenon DEF NewServer
  <2> QED
    BY <1>1, <2>1 DEF Writing
<1>9. CASE RunApp(i)
  BY <1>9, Zenon DEF RunApp, Writing
<1>10. CASE StopServer(i)
  <2>1. inst[i].pc = "running" /\ ((\E p : Goes(i, p)) \/ \E to : Local(i, to))
    BY <1>10, Zenon DEF StopServer
  <2> QED
    BY <1>1, <2>1 DEF Writing
<1>11. CASE Cleanup(i)
  <2>1. inst[i].pc = "closing" /\ ((\E p : Goes(i, p)) \/ \E to : Local(i, to))
    BY <1>11, Zenon DEF Cleanup
  <2> QED
    BY <1>1, <2>1 DEF Writing
<1> QED
  BY <1>2, <1>3, <1>4, <1>5, <1>6, <1>7, <1>8, <1>9, <1>10, <1>11

\* The steps that write other tables, or read.
LEMMA OtherWrites ==
    ASSUME StartInv, NEW i \in Instances,
           \/ \E release \in DOMAIN Releases, config \in DOMAIN Configs : Start(i, release, config)
           \/ RunMigrations(i) \/ DescribeRead(i) \/ DescribeWrite(i) \/ RefreshApis(i)
    PROVE  /\ inst[i].pc \notin Writing
           /\ \E to : Set(i, to)
           /\ db'.apis = db.apis /\ writer' = writer
<1>0. Contents(db)
  BY DEF StartInv, Globals
<1>1. ASSUME Fails(i) \/ \E p : Goes(i, p)
      PROVE  (\E to : Set(i, to)) /\ db'.apis = db.apis /\ writer' = writer
  BY <1>1 DEF Fails, Goes, Local
<1>2. CASE \E release \in DOMAIN Releases, config \in DOMAIN Configs : Start(i, release, config)
  BY <1>2 DEF Start, Writing
<1>3. CASE RunMigrations(i)
  <2>1. CASE \E p : Goes(i, p)
    BY <1>1, <1>3, <2>1 DEF RunMigrations, Writing
  <2>2. CASE \E applied : db' = [db EXCEPT !.history = @ \cup applied] /\ (\E to : Set(i, to)) /\ writer' = writer
    BY <1>0, <1>3, <2>2 DEF RunMigrations, Writing, Contents
  <2> QED
    BY <1>3, <2>1, <2>2, Zenon DEF RunMigrations
<1>4. CASE DescribeRead(i)
  <2>1. CASE Fails(i) \/ \E p : Goes(i, p)
    BY <1>1, <1>4, <2>1 DEF DescribeRead, Writing
  <2>2. CASE (\E to : Set(i, to)) /\ UNCHANGED <<db, writer>>
    BY <1>4, <2>2 DEF DescribeRead, Writing
  <2> QED
    BY <1>4, <2>1, <2>2 DEF DescribeRead
<1>5. CASE DescribeWrite(i)
  <2>1. CASE Fails(i)
    BY <1>1, <1>5, <2>1 DEF DescribeWrite, Writing
  <2>2. CASE \E rows : db' = [db EXCEPT !.i18n = rows] /\ (\E to : Set(i, to)) /\ writer' = writer
    BY <1>0, <1>5, <2>2 DEF DescribeWrite, Writing, Contents
  <2> QED
    BY <1>5, <2>1, <2>2 DEF DescribeWrite
<1>6. CASE RefreshApis(i)
  <2>1. CASE Fails(i)
    BY <1>1, <1>6, <2>1 DEF RefreshApis, Writing
  <2>2. CASE (\E to : Set(i, to)) /\ UNCHANGED <<db, writer>>
    BY <1>6, <2>2 DEF RefreshApis, Writing
  <2> QED
    BY <1>6, <2>1, <2>2 DEF RefreshApis
<1> QED
  BY <1>2, <1>3, <1>4, <1>5, <1>6

LEMMA ApisStep == StartInv /\ ApisInv /\ [Next]_vars => ApisInv'
<1> SUFFICES ASSUME StartInv, ApisInv, [Next]_vars PROVE ApisInv'
  OBVIOUS
<1>1. CASE UNCHANGED vars
  BY <1>1 DEF vars, ApisInv, Owned, OwnPackage
<1>2. ASSUME NEW i \in Instances, inst[i].pc \notin Writing, \E to : Set(i, to), db'.apis = db.apis, writer' = writer
      PROVE  ApisInv'
  <2>1. writer # i
    BY <1>2, Of
  <2> QED
    BY <1>2, <2>1, ApisAlone
<1>3. ASSUME NEW i \in Instances, Crash(i) PROVE ApisInv'
  <2>1. Set(i, Fresh) /\ db' = db /\ writer' = IF writer = i THEN None ELSE writer
    BY <1>3 DEF Crash
  <2>2. writer' # i
    BY <2>1, StartAssumption
  <2> QED
    BY <2>1, <2>2, ApisAlone
<1>4. ASSUME NEW i \in Instances,
             \/ \E release \in DOMAIN Releases, config \in DOMAIN Configs : Start(i, release, config)
             \/ RunMigrations(i) \/ DescribeRead(i) \/ DescribeWrite(i) \/ RefreshApis(i)
      PROVE  ApisInv'
  BY <1>2, <1>4, OtherWrites, Zenon
<1>5. ASSUME NEW i \in Instances,
             \/ NewClients(i) \/ LoadMigrations(i) \/ ParseDocuments(i) \/ RefreshRules(i)
             \/ NewTransport(i, "mcp", "sse") \/ NewTransport(i, "sse", "http") \/ NewHTTPServer(i)
             \/ NewServer(i, "grpc", "queue") \/ NewServer(i, "queue", "job") \/ NewServer(i, "job", "app")
             \/ RunApp(i) \/ StopServer(i) \/ Cleanup(i)
      PROVE  ApisInv'
  <2>1. inst[i].pc \notin Writing /\ \E to : Local(i, to)
    BY <1>5, OnlyMoves
  <2>2. (\E to : Set(i, to)) /\ db'.apis = db.apis /\ writer' = writer
    BY <2>1 DEF Local
  <2> QED
    BY <1>2, <2>1, <2>2
<1>6. ASSUME NEW i \in Instances,
             ReplaceApis(i) \/ ReplaceAllTranslations(i) \/ SyncRoles(i) \/ RebuildPolicyData(i) \/ Commit(i)
      PROVE  ApisInv'
  <2>1. inst[i].pc \in Writing \cup {"apis"}
    BY <1>6 DEF ReplaceApis, ReplaceAllTranslations, SyncRoles, RebuildPolicyData, Commit, Writing
  <2> QED
    BY <1>6, <2>1, ApisInTransaction
<1>7. ASSUME NEW i \in Instances, Steps(i) PROVE ApisInv'
  BY <1>4, <1>5, <1>6, <1>7, Zenon DEF Steps
<1> QED
  BY <1>1, <1>3, <1>4, <1>7, Zenon DEF Next

\* No interface is ever recorded under a package that is not its own, whichever release
\* replaces them and wherever it stops: of the packages a service may be in, its own is
\* one, and one of several is never chosen (buildServicePackageMap).
THEOREM InterfacesOfTheirPackage == Spec => []NoForeignPackage
<1>1. Init => ApisInv
  BY DocumentsAssumption DEF Init, ApisInv, Owned
<1>2. StartInv /\ ApisInv /\ [Next]_vars => ApisInv'
  BY ApisStep
<1>3. ApisInv => NoForeignPackage
  BY DEF ApisInv, Owned, NoForeignPackage
<1> QED
  BY <1>1, <1>2, <1>3, StartInvariant, PTL DEF Spec
=============================================================================
