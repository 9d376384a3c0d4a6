---------------------------- MODULE Permissions ----------------------------
(***************************************************************************)
(* The rules startup derives from roles, menus and interfaces              *)
(* (resource/biz/base_tenant.go, resource/biz/casbin_rule.go), and the     *)
(* descriptions of migrations it records (resource/migration).  These are  *)
(* operators on the contents of the database, a record with                *)
(*   tenants      the code of each tenant                                  *)
(*   roles        each role: its tenant, its code, its menus               *)
(*   menus        the operations each menu names                           *)
(*   apis         the interfaces, as ApiCatalog makes them                 *)
(*   translations their translations                                       *)
(*   policies     the rules: tenant, role, operation, method, whole        *)
(*   history      the migrations applied: module, source, version          *)
(*   i18n         the description of a migration in a locale               *)
(* A rule that is not whole is one an older release wrote.                 *)
(***************************************************************************)
EXTENDS Naturals, Sequences, FiniteSets

CONSTANTS
    DefaultTenant, \* code of the default tenant
    TenantRole,    \* code of the role a tenant's administrator has
    SuperRole,     \* code of the role that may do everything
    DefaultTarget  \* name of the default database

-----------------------------------------------------------------------------
(* Roles and rules. *)

\* SyncTenantRoleMenus: every role with the code of the template has its menus.
Templates(db) == {r \in DOMAIN db.roles : /\ db.roles[r].code = TenantRole
                                          /\ db.roles[r].tenant \in DOMAIN db.tenants
                                          /\ db.tenants[db.roles[r].tenant] = DefaultTenant}

SyncTenantRoleMenus(db) ==
    IF Templates(db) = {} THEN db
    ELSE LET menus == db.roles[CHOOSE r \in Templates(db) : TRUE].menus
         IN  [db EXCEPT !.roles = [r \in DOMAIN db.roles |->
                IF db.roles[r].code = TenantRole THEN [db.roles[r] EXCEPT !.menus = menus] ELSE db.roles[r]]]

\* The interface an operation stands for: of several, the first the store returns.
Picks(db) == LET named(o) == {api.method : api \in {a \in db.apis : a.operation = o}}
                   operations == {api.operation : api \in db.apis}
               IN  {pick \in [operations -> {api.method : api \in db.apis}] :
                        \A o \in operations : pick[o] \in named(o)}

\* buildCasbinRuleList: a rule for each operation a role's menus name, when its
\* tenant, the menu and the interface exist.
buildCasbinRuleList(db, pick) ==
    { [tenant |-> db.tenants[db.roles[x[1]].tenant], role |-> db.roles[x[1]].code,
       operation |-> x[2], method |-> pick[x[2]], whole |-> TRUE] :
        x \in {y \in (DOMAIN db.roles) \X (DOMAIN pick) :
                 /\ db.roles[y[1]].tenant \in DOMAIN db.tenants
                 /\ \E m \in db.roles[y[1]].menus \cap DOMAIN db.menus : y[2] \in db.menus[m]} }

\* RefreshPolicy: the super role of the default tenant may call every interface;
\* a rule that is not whole is left out.
SuperRules(apis) ==
    { [tenant |-> DefaultTenant, role |-> SuperRole, operation |-> api.operation,
       method |-> api.method, whole |-> TRUE] : api \in apis }

WholeRules(policies) == {rule \in policies : rule.whole}

-----------------------------------------------------------------------------
(* Descriptions of migrations.  A README is the record                     *)
(*   [module, path, locale, text]                                          *)
(* with path its segments under the module's root and locale "" for the    *)
(* README without one, which the migrations themselves read.               *)

\* loadDescriptionTranslations: a localised README lies two to four levels deep.
Localised(readmes) == {f \in readmes : f.locale # ""}

Loads(readmes) == \A f \in Localised(readmes) : Len(f.path) \in 2..4

\* The migration a README describes.
Describes(f) == [module |-> f.module, source |-> IF Len(f.path) = 4 THEN f.path[3] ELSE DefaultTarget,
                 version |-> f.path[1]]

\* Several READMEs of one migration and locale replace each other; the last stays.
Texts(readmes) ==
    LET key(f) == [of |-> Describes(f), locale |-> f.locale]
        keys == {key(f) : f \in Localised(readmes)}
    IN  {pick \in [keys -> {f.text : f \in Localised(readmes)}] :
            \A k \in keys : \E f \in Localised(readmes) : key(f) = k /\ pick[k] = f.text}

\* Mutant: a description without a migration is passed over.
RecordedAny(texts, history) == \E k \in DOMAIN texts : k.of \in history

\* A description needs the record of its migration.
Recorded(texts, history) == \A k \in DOMAIN texts : k.of \in history
=============================================================================
