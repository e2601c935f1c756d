-------------------------- MODULE NamingTemplates --------------------------
(***************************************************************************)
(* The naming templates of a directory (naming_template.py): the files are *)
(* read in the order of their names, checked one by one, and then each is  *)
(* merged with the template it extends, and that with its own, by a        *)
(* recursion that remembers what it has resolved.  The recursion is its    *)
(* stack here.  Last, a platform is set up with one of the templates.      *)
(*                                                                         *)
(* A text is known by the placeholders in it, and entity_name is a map     *)
(* with no other key than its default.                                     *)
(***************************************************************************)
EXTENDS Naturals, SequencesExt

CONSTANTS
    Absent, Null,          \* a key that is not in a file; one without a value
    Calling, Nothing,      \* resolve has not returned; it returned None
    Ids,                   \* template ids
    Builtin,               \* _BUILTIN_TOKENS
    DeviceName,            \* the token device_name, one of them
    Variables,             \* the variables templates define
    Files,                 \* what a file may hold
    MaxFiles,              \* bound on the files of the directory
    MaxInheritanceDepth    \* MAX_INHERITANCE_DEPTH

Unset == {Absent, Null}

Texts == Unset \cup SUBSET (Builtin \cup Variables)

Templates == [extends : Ids \cup Unset, variables : Unset \cup SUBSET Variables,
              device_name : Texts, entity_name : Texts, object_id : Texts]

ASSUME NamingTemplatesAssumption ==
    /\ Absent # Null
    /\ Unset \cap Ids = {}
    /\ {Calling, Nothing} \cap Templates = {}
    /\ Calling # Nothing
    /\ DeviceName \in Builtin
    /\ MaxFiles \in Nat
    /\ MaxInheritanceDepth \in Nat \ {0}
    /\ Files \subseteq [id : Ids, template : Templates]

VARIABLES
    phase,     \* "load", "resolve", "set up", "done"
    files,     \* files read so far
    raw,       \* raw: the checked templates by id
    order,     \* the ids in it, in the order resolve is called for them
    stack,     \* the ids resolve is at work on; each one's seen are those below
    answer,    \* what a call has just returned, or Calling
    resolved,  \* resolved
    outcome    \* of the platform's setup

vars == <<phase, files, raw, order, stack, answer, resolved, outcome>>

Empty == [extends |-> Absent, variables |-> Absent, device_name |-> Absent,
          entity_name |-> Absent, object_id |-> Absent]

NoTemplates == [id \in {} |-> Empty]

-----------------------------------------------------------------------------
(* Templates.                                                              *)

\* value or {}.
Given(value) == IF value \in Unset THEN {} ELSE value

\* _validate: every placeholder is built in or one of the template's variables.
Valid(template) ==
    Given(template.device_name) \cup Given(template.entity_name)
            \cup Given(template.object_id)
        \subseteq Builtin \cup Given(template.variables)

\* _merge: a key the child has replaces the base's, and its variables are added.
Merged(base, child) ==
    [key \in DOMAIN Empty |->
        IF child[key] = Absent THEN base[key]
        ELSE IF key = "variables" /\ child[key] # Null
             THEN Given(base[key]) \cup child[key]
        ELSE child[key]]

\* data.get("extends"), if it is to be followed.
Extends(id) == raw[id].extends
HasParent(id) == Extends(id) \notin Unset \cup {id}

Bound(f, key, value) == [k \in DOMAIN f \cup {key} |-> IF k = key THEN value ELSE f[k]]

-----------------------------------------------------------------------------
Init ==
    /\ phase = "load"
    /\ files = 0
    /\ raw = NoTemplates
    /\ order = <<>>
    /\ stack = <<>>
    /\ answer = Calling
    /\ resolved = NoTemplates
    /\ outcome = "none"

\* _load_file and the first check: a file that cannot be read, or is not valid by
\* itself, is skipped; one with the id of an earlier one replaces it.
LoadFile ==
    /\ phase = "load"
    /\ files < MaxFiles
    /\ files' = files + 1
    /\ \/ UNCHANGED <<raw, order>>
       \/ \E file \in Files :
            /\ Valid(file.template)
            /\ raw' = Bound(raw, file.id, file.template)
            /\ order' = IF file.id \in DOMAIN raw THEN order ELSE Append(order, file.id)
    /\ UNCHANGED <<phase, stack, answer, resolved, outcome>>

\* Reading one raises what _load_file does not catch, such as for a file that is
\* not UTF-8; async_load_templates returns no template at all.
LoadRaises ==
    /\ phase = "load"
    /\ files < MaxFiles
    /\ phase' = "set up"
    /\ files' = files + 1
    /\ raw' = NoTemplates
    /\ order' = <<>>
    /\ UNCHANGED <<stack, answer, resolved, outcome>>

\* The directory has no more files.
Loaded ==
    /\ phase = "load"
    /\ phase' = "resolve"
    /\ UNCHANGED <<files, raw, order, stack, answer, resolved, outcome>>

\* The loop over raw.
ResolveNext ==
    /\ phase = "resolve" /\ stack = <<>> /\ order # <<>>
    /\ stack' = <<Head(order)>>
    /\ order' = Tail(order)
    /\ answer' = Calling
    /\ UNCHANGED <<phase, files, raw, resolved, outcome>>

Resolved ==
    /\ phase = "resolve" /\ stack = <<>> /\ order = <<>>
    /\ phase' = "set up"
    /\ UNCHANGED <<files, raw, order, stack, answer, resolved, outcome>>

Top == Last(stack)
Seen == Range(Front(stack))

Remembered == Top \in DOMAIN resolved

NotThere == Top \notin DOMAIN raw \/ Top \in Seen

\* Mutant: chains may be of any depth.
RefusedAtNoDepth == NotThere

\* Mutant: one call less is allowed.
RefusedEarly == NotThere \/ Len(stack) >= MaxInheritanceDepth

Refused == NotThere \/ Len(stack) > MaxInheritanceDepth

\* resolve returns at once: with what it remembers, or with nothing.
Return ==
    /\ phase = "resolve" /\ stack # <<>> /\ answer = Calling
    /\ \/ Remembered /\ answer' = resolved[Top]
       \/ ~Remembered /\ Refused /\ answer' = Nothing
    /\ stack' = Front(stack)
    /\ UNCHANGED <<phase, files, raw, order, resolved, outcome>>

\* resolve calls itself for the parent.
CallParent ==
    /\ phase = "resolve" /\ stack # <<>> /\ answer = Calling
    /\ ~Remembered /\ ~Refused
    /\ HasParent(Top)
    /\ stack' = Append(stack, Extends(Top))
    /\ UNCHANGED <<phase, files, raw, order, answer, resolved, outcome>>

\* The end of resolve: the parent's answer is in, or there is no parent.
Apply ==
    /\ phase = "resolve" /\ stack # <<>>
    /\ answer = Calling => ~Remembered /\ ~Refused /\ ~HasParent(Top)
    /\ LET base == IF answer \in {Calling, Nothing} THEN Empty ELSE answer
           merged == Merged(base, raw[Top])
       IN IF Valid(merged)
          THEN /\ resolved' = Bound(resolved, Top, merged)
               /\ answer' = merged
          ELSE /\ answer' = Nothing
               /\ UNCHANGED resolved
    /\ stack' = Front(stack)
    /\ UNCHANGED <<phase, files, raw, order, outcome>>

\* What a sensor is not given by itself it takes from the template, if it has a
\* text for it.  Each of the three renders the device's name first, and that with
\* no token device_name but the template's own; a token with no value raises.
Renders(template, given) ==
    LET variables == Given(template.variables)
        named == Given(template.device_name) \subseteq (Builtin \ {DeviceName}) \cup variables
        shown(text) == text \in Unset \/ (named /\ text \subseteq Builtin \cup variables)
    IN  /\ "logical_name" \in given \/ named
        /\ "entity_name" \in given \/ shown(template.entity_name)
        /\ "object_id" \in given \/ shown(template.object_id)

\* async_get_template and the platform's setup, with one sensor: the built-in names
\* replace a template that is not there; one that does not render raises.
SetUpPlatform ==
    /\ phase = "set up"
    /\ phase' = "done"
    /\ \E id \in Ids, given \in SUBSET {"logical_name", "entity_name", "object_id"} :
        outcome' = IF id \notin DOMAIN resolved THEN "built-in names"
                   ELSE IF Renders(resolved[id], given) THEN "template names"
                   ELSE "raised"
    /\ UNCHANGED <<files, raw, order, stack, answer, resolved>>

Next ==
    \/ LoadFile
    \/ LoadRaises
    \/ Loaded
    \/ ResolveNext
    \/ Resolved
    \/ Return
    \/ CallParent
    \/ Apply
    \/ SetUpPlatform

Spec == Init /\ [][Next]_vars

-----------------------------------------------------------------------------
(* Properties.                                                             *)

\* resolve is at most MAX_INHERITANCE_DEPTH calls below the first, and a template
\* is only used under its id if its file has been read.
TypeOK ==
    /\ phase \in {"load", "resolve", "set up", "done"}
    /\ files \in 0..MaxFiles
    /\ DOMAIN raw \in SUBSET Ids
    /\ raw \in [DOMAIN raw -> Templates]
    /\ order \in Seq(Ids)
    /\ stack \in Seq(Ids)
    /\ Len(stack) <= MaxInheritanceDepth + 1
    /\ answer \in Templates \cup {Calling, Nothing}
    /\ DOMAIN resolved \in SUBSET DOMAIN raw
    /\ resolved \in [DOMAIN resolved -> Templates]
    /\ outcome \in {"none", "built-in names", "template names", "raised"}

\* Templates, each of which extends the next.
Chains(n) ==
    {chain \in [1..n -> DOMAIN raw] :
        /\ \A i \in 1..(n - 1) : HasParent(chain[i]) /\ Extends(chain[i]) = chain[i + 1]
        /\ IsInjective(chain)}

InCycle(id) ==
    \E n \in 2..MaxFiles : \E chain \in Chains(n) :
        chain[n] = id /\ Extends(id) = chain[1]

AtDepthLimit(id) ==
    \E chain \in Chains(MaxInheritanceDepth) : chain[MaxInheritanceDepth] = id

\* What a template's file says, merged with what its parent has resolved to.
WithParent(id) ==
    Merged(IF HasParent(id) /\ Extends(id) \in DOMAIN resolved
           THEN resolved[Extends(id)] ELSE Empty,
           raw[id])

\* A template is its file merged with all that it extends, and is left out if that
\* is not valid, whatever the order in which the files were read and whichever
\* of them it was first resolved for.  Where the code gives another result is in
\* a cycle, and as far down a chain of templates as is allowed, be it another
\* template's: there the parent may be missing (naming_template.py:212-241).
MergedWithParent ==
    phase = "set up" => \A id \in DOMAIN raw :
        \/ InCycle(id)
        \/ AtDepthLimit(id)
        \/ IF Valid(WithParent(id)) THEN id \in DOMAIN resolved /\ resolved[id] = WithParent(id)
                                    ELSE id \notin DOMAIN resolved

=============================================================================
