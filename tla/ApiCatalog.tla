----------------------------- MODULE ApiCatalog -----------------------------
(***************************************************************************)
(* The interfaces an OpenAPI document names (resource/biz/base_api.go).    *)
(*                                                                         *)
(* An operation id is Service_Method and names no protobuf package, so the *)
(* package of a service is inferred from the schemas its operations refer  *)
(* to.  A path, a schema reference and a package are sequences of their    *)
(* segments; an operation is the record                                    *)
(*   [path, method, service, rpc, refs, tag, desc]                         *)
(* with refs every reference in its parameters, its body and its           *)
(* responses, nested ones included, and tag its first tag.                 *)
(***************************************************************************)
EXTENDS Naturals, Sequences, FiniteSets, FiniteSetsExt, SequencesExt

CONSTANTS Versions  \* the segments that name a version: v1, v1beta1

\* protoPackageFromSchemaRef: the segments up to the first version that has a
\* package before it and a message after it.  Empty when there is none.
protoPackageFromSchemaRef(ref) ==
    LET ends == {i \in 2..(Len(ref) - 1) : ref[i] \in Versions}
    IN  IF ends = {} THEN <<>> ELSE SubSeq(ref, 1, Min(ends))

\* protoPackageTerminal: the segment before the version.
protoPackageTerminal(package) ==
    IF Len(package) >= 2 /\ Last(package) \in Versions THEN package[Len(package) - 1] ELSE ""

\* openAPITerminal: only paths of the main version take part.
openAPITerminal(path) ==
    IF Len(path) >= 3 /\ path[1] = "api" /\ path[2] = "v1" THEN path[3] ELSE ""

\* operationProtoPackages, collectSchemaProtoPackages: the packages an operation
\* refers to that belong to its terminal.
operationProtoPackages(op) ==
    { package \in {protoPackageFromSchemaRef(ref) : ref \in op.refs} :
        package # <<>> /\ protoPackageTerminal(package) = openAPITerminal(op.path) }

\* pathOperations: the methods that take part.
pathOperations(doc) == {op \in doc.ops : op.method \in {"GET", "POST", "PUT", "DELETE"}}

\* parseOperationID: both halves are there.
HasId(op) == op.service # "" /\ op.rpc # ""

\* servicePackageKey: empty for an operation that takes no part.
servicePackageKey(op) ==
    IF openAPITerminal(op.path) = "" \/ ~HasId(op) THEN <<>>
    ELSE <<openAPITerminal(op.path), op.service>>

\* buildServicePackageMap: a service belongs to the one package its operations refer
\* to; without a reference, to the one package of its terminal; otherwise to none.
Inferred(ops) ==
    LET keyed == {op \in ops : servicePackageKey(op) # <<>>}
        ofService(key) == UNION {operationProtoPackages(op) : op \in {o \in keyed : servicePackageKey(o) = key}}
        ofTerminal(key) == UNION {operationProtoPackages(op) :
                                    op \in {o \in keyed : openAPITerminal(o.path) = key[1]}}
    IN  [key \in {servicePackageKey(op) : op \in keyed} |->
            IF ofService(key) # {} THEN ofService(key) ELSE ofTerminal(key)]

\* The package each service is really in is among those that may be inferred for it,
\* when there are any: what a document must do for the inference to be sound.
Attributable(doc) ==
    LET inferred == Inferred(pathOperations(doc))
    IN  \A op \in pathOperations(doc) :
            LET key == servicePackageKey(op)
            IN  key # <<>> /\ inferred[key] # {} => op.package \in inferred[key]

\* Mutant: the first candidate wins.
FirstCandidate(doc) ==
    LET inferred == Inferred(pathOperations(doc))
    IN  [key \in {k \in DOMAIN inferred : inferred[k] # {}} |-> CHOOSE p \in inferred[key] : TRUE]

buildServicePackageMap(doc) ==
    LET inferred == Inferred(pathOperations(doc))
    IN  [key \in {k \in DOMAIN inferred : Cardinality(inferred[k]) = 1} |-> CHOOSE p \in inferred[key] : TRUE]

\* buildTagsMap, terminalByTagDescription: the description of a service, from the
\* last of its tags whose description starts with the name of its terminal.
buildTagsMap(doc, packages) ==
    LET key(tag) == <<tag.terminal, tag.name>>
        used == {i \in DOMAIN doc.tags : key(doc.tags[i]) \in DOMAIN packages}
        full(i) == Append(packages[key(doc.tags[i])], doc.tags[i].name)
    IN  [service \in {full(i) : i \in used} |-> doc.tags[Max({i \in used : full(i) = service})].text]

\* terminalToolPrompt: a terminal with a name users know.
terminalToolPrompt(service) ==
    LET package == protoPackageFromSchemaRef(service)
    IN  IF protoPackageTerminal(package) \in {"admin", "app", "base"} THEN protoPackageTerminal(package) ELSE ""

\* defaultToolPrompts, uniqueToolPrompts: one prompt for each thing known of the
\* interface, each once.
defaultToolPrompts(service, serviceDesc, desc, op) ==
    LET both     == IF serviceDesc # "" /\ desc # "" THEN <<<<serviceDesc, desc>>>> ELSE <<>>
        either   == IF desc # "" THEN <<<<desc>>>> ELSE IF serviceDesc # "" THEN <<<<serviceDesc>>>> ELSE <<>>
        terminal == IF terminalToolPrompt(service) # "" /\ desc # ""
                    THEN <<<<terminalToolPrompt(service), desc>>>> ELSE <<>>
        ways     == << <<"tool", service, op.rpc>>, <<"rpc", service, op.rpc>>, <<"http", op.method, op.path>> >>
        all      == both \o either \o terminal \o ways
        first(i) == \A j \in 1..(i - 1) : all[j] # all[i]
        kept     == SetToSortSeq({i \in DOMAIN all : first(i)}, <)
    IN  [i \in DOMAIN kept |-> all[kept[i]]]

\* parseOperation: the record of an operation whose package is known.
Described(op) == HasId(op) /\ servicePackageKey(op) # <<>>

parseOperation(op, tags, packages) ==
    LET package == packages[servicePackageKey(op)]
        service == Append(package, op.service)
        tagged  == Append(package, op.tag)
        serviceDesc == IF tagged \in DOMAIN tags THEN tags[tagged]
                       ELSE IF service \in DOMAIN tags THEN tags[service] ELSE ""
    IN  [service |-> service, operation |-> Append(service, op.rpc), method |-> op.method, path |-> op.path,
         serviceDesc |-> serviceDesc, desc |-> op.desc,
         prompts |-> defaultToolPrompts(service, serviceDesc, op.desc, op)]

\* OpenAPIDataToBaseAPI, ParseOpenAPI: the records of a document.  The sort by
\* operation keeps no order among records of one operation.
OpenAPIDataToBaseAPI(doc) ==
    LET packages == buildServicePackageMap(doc)
        tags == buildTagsMap(doc, packages)
        known == {op \in pathOperations(doc) : Described(op) /\ servicePackageKey(op) \in DOMAIN packages}
    IN  {parseOperation(op, tags, packages) : op \in known}

\* OpenAPIDataToBaseAPII18N
OpenAPIDataToBaseAPII18N(doc, locale) ==
    IF locale = "" THEN {}
    ELSE {[operation |-> api.operation, locale |-> locale, prompts |-> api.prompts,
           serviceDesc |-> api.serviceDesc, desc |-> api.desc] : api \in OpenAPIDataToBaseAPI(doc)}
=============================================================================
