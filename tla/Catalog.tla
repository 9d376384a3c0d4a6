------------------------------ MODULE Catalog ------------------------------
(***************************************************************************)
(* The message catalogue (resource/i18n) and what it makes of an error     *)
(* (LocalizeError), with the structured errors of errorsx.                 *)
(*                                                                         *)
(* A language file is a function from message keys to texts.  A text is a  *)
(* name; the catalogue shows it in a language or the client sees the text  *)
(* of the error as it is.                                                  *)
(***************************************************************************)
EXTENDS Integers, Sequences, FiniteSets, SequencesExt

CONSTANTS
    Texts,      \* the texts of errors and of messages
    KeyOrder,   \* the message keys in the order of their names
    Languages,  \* the names that are languages
    None        \* what is missing or empty

ASSUME KeyNames == KeyOrder \in Seq(STRING)

-----------------------------------------------------------------------------
(* Structured errors. *)

Frozen == [INVALID_ARGUMENT |-> 400, UNAUTHENTICATED |-> 401, PERMISSION_DENIED |-> 403,
           RESOURCE_NOT_FOUND |-> 404, CONFLICT |-> 409, RATE_LIMITED |-> 429,
           INTERNAL_ERROR |-> 500]

MessageKey(text) == "legacy.error." \o text
LegacyKeys       == {MessageKey(text) : text \in Texts}

\* newStructuredError; Conflict and its relatives only add to the metadata.
Structured(reason, text) ==
    [code |-> Frozen[reason], reason |-> reason, text |-> text,
     key |-> IF text = None THEN None ELSE MessageKey(text)]

WithMessageKey(err, key) == [err EXCEPT !.key = key]

\* An error of another library, without a reason: any error of Go (500) and those of gRPC.
Reasoned(code, reason, text) == [code |-> code, reason |-> reason, key |-> None, text |-> text]
Plain(code, text)            == Reasoned(code, None, text)

\* A row that is not there is the caller's error; what has a reason stays what it is.
WrapInternal(err, absent, text) ==
    IF absent THEN Structured("RESOURCE_NOT_FOUND", text)
    ELSE IF err.reason # None THEN err ELSE Structured("INTERNAL_ERROR", text)

NoError == [code |-> 200, reason |-> None, key |-> None, text |-> None]

-----------------------------------------------------------------------------
(* Building the catalogue: the files of the modules, then Core's own. *)

\* A key may come twice in a language only with the same text.
MergeFile(files, locale, file) ==
    IF locale \notin DOMAIN files THEN [l \in DOMAIN files \cup {locale} |-> IF l = locale THEN file ELSE files[l]]
    ELSE [files EXCEPT ![locale] = [k \in DOMAIN @ \cup DOMAIN file |-> IF k \in DOMAIN @ THEN @[k] ELSE file[k]]]

Contradicts(files, locale, file) ==
    /\ locale \in DOMAIN files
    /\ \E k \in DOMAIN file \cap DOMAIN files[locale] : file[k] # files[locale][k]

AddFile(catalog, entry) ==
    IF ~catalog.ok \/ Contradicts(catalog.files, entry.locale, entry.file)
    THEN [catalog EXCEPT !.ok = FALSE]
    ELSE [catalog EXCEPT !.files = MergeFile(@, entry.locale, entry.file)]

\* NewI18n: every file must be named after a language.
NewI18n(merged) == [ok |-> merged.ok /\ DOMAIN merged.files \subseteq Languages, files |-> merged.files]

NewCatalog(entries) == NewI18n(FoldLeft(AddFile, [ok |-> TRUE, files |-> [l \in {} |-> None]], entries))

Keys(catalog)  == UNION {DOMAIN catalog.files[l] : l \in DOMAIN catalog.files}
Empty(catalog) == Keys(catalog) = {}

HasMessage(catalog, key) == key \in Keys(catalog)

\* Of the keys with this text the one that sorts first.
KeyForSource(catalog, text) ==
    LET found == {i \in DOMAIN KeyOrder : \E l \in DOMAIN catalog.files :
                     KeyOrder[i] \in DOMAIN catalog.files[l] /\ catalog.files[l][KeyOrder[i]] = text}
    IN  IF text = None \/ found = {} THEN None ELSE KeyOrder[Min(found)]

-----------------------------------------------------------------------------
(* Localising an error. *)

NormalizeStructuredError(err) ==
    LET named == {reason \in DOMAIN Frozen : Frozen[reason] = err.code /\ err.code # 500}
    IN  IF err.reason \in DOMAIN Frozen THEN err
        ELSE IF named # {} THEN [err EXCEPT !.reason = CHOOSE reason \in named : TRUE]
        ELSE [err EXCEPT !.code = 500, !.reason = "INTERNAL_ERROR"]

DefaultMessageKey(reason) == "common.error." \o reason

Shown(catalog, locale, key) ==
    /\ locale \in DOMAIN catalog.files /\ key \in DOMAIN catalog.files[locale]
    /\ catalog.files[locale][key] # None

\* The language asked for, the default language, the text of the error, or a
\* fixed text when it has none.
Localize(catalog, locale, fallback, key, text) ==
    IF key # None /\ Shown(catalog, locale, key) THEN [in |-> locale, text |-> catalog.files[locale][key]]
    ELSE IF key # None /\ Shown(catalog, fallback, key) THEN [in |-> fallback, text |-> catalog.files[fallback][key]]
    ELSE [in |-> None, text |-> text]

\* Mutant: an error without a message of its own keeps its text, internal or not.
LocalizeErrorKeepingText(catalog, locale, fallback, err) ==
    LET structured == NormalizeStructuredError(err)
        key == IF structured.key = None THEN DefaultMessageKey(structured.reason)
               ELSE IF structured.key \in LegacyKeys /\ ~HasMessage(catalog, structured.key)
               THEN KeyForSource(catalog, structured.text)
               ELSE structured.key
    IN  [code |-> structured.code, reason |-> structured.reason, key |-> key,
         message |-> Localize(catalog, locale, fallback, key, structured.text)]

\* A key made from the text only stands for a message of the catalogue; without one
\* the text is shown, unless the error is internal.
LocalizeError(catalog, locale, fallback, err) ==
    LET structured == NormalizeStructuredError(err)
        source  == KeyForSource(catalog, structured.text)
        default == DefaultMessageKey(structured.reason)
        key == IF structured.key = None THEN default
               ELSE IF structured.key \notin LegacyKeys \/ HasMessage(catalog, structured.key) THEN structured.key
               ELSE IF source # None THEN source
               ELSE IF structured.reason # "INTERNAL_ERROR" THEN None ELSE default
    IN  [code |-> structured.code, reason |-> structured.reason, key |-> key,
         message |-> Localize(catalog, locale, fallback, key, structured.text)]
=============================================================================
