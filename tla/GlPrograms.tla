------------------------------ MODULE GlPrograms ------------------------------
(* Programs and uniforms of the GL binding (src/on-browser/src/envGl.ts).      *)
(* WebGL 2 gives a uniform a location object, where the wasm program expects   *)
(* an integer: the binding keeps, per program, the locations it was asked for  *)
(* under the integers 1, 2, ... in the order of the first query, and resolves  *)
(* the integer of a glUniform* call in currentProgramInfo, its own idea of the *)
(* program in use.  WebGL keeps the real program in use and refuses a location *)
(* obtained before the program was linked again.                               *)
(*                                                                             *)
(* A program is known here by its id: the ids are never reused, so the id also *)
(* names the WebGL program.  The wasm program is a GL client that uploads a    *)
(* uniform with the id it was given for it while it believes, from its own     *)
(* glUseProgram calls, that the program is in use.  Bounds: MaxPrograms        *)
(* programs, MaxLinks links of each.                                           *)
EXTENDS Integers, FiniteSets

CONSTANTS Uniforms,     \* the names of the uniforms
          MaxPrograms,
          MaxLinks

ASSUME BoundsAssumption == MaxPrograms \in Nat /\ MaxLinks \in Nat

Ids == 1 .. MaxPrograms

None == 0

VARIABLES
    nextProgramId,
    programInfos,  \* the Map: id -> ProgramInfo, see NewInfo
    current,       \* currentProgramInfo, by its id, or None
    links,         \* WebGL: how often each program was linked
    active,        \* WebGL: the uniforms of the program's last link
    linked,        \* WebGL: the programs whose last link succeeded
    inUse,         \* WebGL: the program in use, deleted or not, or None
    given,         \* the client: the ids it was given, given[p][name]
    using,         \* the client: the program it last used, or None
    upload,        \* the last glUniform*: the uniform asked for, the one set
    running        \* no exception has ended the wasm program

code == <<nextProgramId, programInfos, current>>
webgl == <<links, active, linked, inUse>>
client == <<given, using, upload, running>>
vars == <<code, webgl, client>>

\* The three Maps of a ProgramInfo: nameToUniformLocation,
\* uniformLocationNameToId and idToUniformLocation.
NewInfo == [location |-> <<>>, id |-> <<>>, byId |-> <<>>]

Init ==
    /\ nextProgramId = 1
    /\ programInfos = <<>>
    /\ current = None
    /\ links = [p \in Ids |-> 0]
    /\ active = [p \in Ids |-> {}]
    /\ linked = {}
    /\ inUse = None
    /\ given = [p \in Ids |-> <<>>]
    /\ using = None
    /\ upload = [asked |-> <<>>, set |-> <<>>]
    /\ running = TRUE

\* f with x mapped to v.
With(f, x, v) == [y \in DOMAIN f \cup {x} |-> IF y = x THEN v ELSE f[y]]

Known == DOMAIN programInfos

Created == 1 .. (nextProgramId - 1)

glCreateProgram ==
    /\ running /\ nextProgramId <= MaxPrograms
    /\ programInfos' = With(programInfos, nextProgramId, NewInfo)
    /\ nextProgramId' = nextProgramId + 1
    /\ UNCHANGED <<current, webgl, client>>

\* Mutant of glDeleteProgram: the current program is not compared.
DeleteKeepsCurrent(p) ==
    /\ running /\ p \in Known
    /\ programInfos' = [q \in Known \ {p} |-> programInfos[q]]
    /\ UNCHANGED <<nextProgramId, current, webgl, client>>

\* WebGL keeps a deleted program that is in use until another is used.
glDeleteProgram(p) ==
    /\ running /\ p \in Known
    /\ programInfos' = [q \in Known \ {p} |-> programInfos[q]]
    /\ current' = IF current = p THEN None ELSE current
    /\ UNCHANGED <<nextProgramId, webgl, client>>

(* What WebGL makes of a link: it fails, with no uniforms, or succeeds with    *)
(* some.  A failing link of the program in use, whose old executable stays,    *)
(* is left out.                                                                *)
Linked(p) ==
    /\ links[p] < MaxLinks
    /\ links' = [links EXCEPT ![p] = @ + 1]
    /\ \/ /\ \E us \in SUBSET Uniforms : active' = [active EXCEPT ![p] = us]
          /\ linked' = linked \cup {p}
       \/ /\ p # inUse
          /\ active' = [active EXCEPT ![p] = {}]
          /\ linked' = linked \ {p}

\* Mutant of glLinkProgram: the Maps by name are cleared, the one by id is not.
LinkForgetsNames(p) ==
    /\ running /\ p \in Known
    /\ Linked(p)
    /\ programInfos' = [programInfos EXCEPT ![p].location = <<>>, ![p].id = <<>>]
    /\ UNCHANGED <<nextProgramId, current, inUse, client>>

\* The Maps of the ProgramInfo are left as they are.
glLinkProgram(p) ==
    /\ running /\ p \in Known
    /\ Linked(p)
    /\ UNCHANGED <<code, inUse, client>>

\* The location WebGL gives for a uniform of the program as it is linked now.
Location(p, name) == [program |-> p, name |-> name, link |-> links[p]]

\* The info with `name` under the next id, the number of names it then has.
Enter(info, name, location) ==
    LET id == Cardinality(DOMAIN info.location \cup {name}) IN
    [location |-> With(info.location, name, location),
     id |-> With(info.id, name, id),
     byId |-> With(info.byId, id, location)]

\* A name queried before keeps its id.  For a uniform the program does not have
\* the answer is -1, which the client takes for no uniform.
glGetUniformLocation(p, name) ==
    /\ running /\ p \in Known
    /\ name \in DOMAIN programInfos[p].id \cup active[p]
    /\ programInfos' = IF name \in DOMAIN programInfos[p].id THEN programInfos
                       ELSE [programInfos EXCEPT ![p] = Enter(@, name, Location(p, name))]
    /\ given' = [given EXCEPT ![p] = With(@, name, programInfos'[p].id[name])]
    /\ UNCHANGED <<nextProgramId, current, webgl, using, upload, running>>

\* The client uses a program that is linked, or none.
glUseProgram(p) ==
    /\ running
    /\ p \in (Known \cap linked) \cup {None}
    /\ current' = p /\ inUse' = p /\ using' = p
    /\ UNCHANGED <<nextProgramId, programInfos, links, active, linked, given, upload, running>>

\* Mutant of Resolve: the programs share one Map by id.
ResolveShared(id) ==
    LET owners == {p \in Known : id \in DOMAIN programInfos[p].byId} IN
    IF current \notin owners THEN {}
    ELSE {programInfos[p].byId[id] : p \in {q \in owners : \A r \in owners : r <= q}}

\* The location for an id in the current program, if there is one.
Resolve(id) ==
    IF current = None \/ id \notin DOMAIN programInfos[current].byId THEN {}
    ELSE {programInfos[current].byId[id]}

(* glUniform1f and its kin: the client sets a uniform of the program it uses.  *)
(* WebGL refuses the location of another program or of an earlier link.        *)
glUniform(name) ==
    /\ running
    /\ using # None /\ name \in DOMAIN given[using]
    /\ \E l \in Resolve(given[using][name]) :
          upload' = [asked |-> <<using, name>>,
                     set |-> IF l.program = inUse /\ l.link = links[inUse]
                             THEN <<l.program, l.name>> ELSE <<>>]
    /\ UNCHANGED <<code, webgl, given, using, running>>

\* "current program is not set" and "uniform not found".
glUniformThrows(name) ==
    /\ running
    /\ using # None /\ name \in DOMAIN given[using]
    /\ Resolve(given[using][name]) = {}
    /\ running' = FALSE
    /\ UNCHANGED <<code, webgl, given, using, upload>>

\* "program not found": any call above for a program that was deleted.
ProgramThrows ==
    /\ running /\ Created # Known
    /\ running' = FALSE
    /\ UNCHANGED <<code, webgl, given, using, upload>>

Next ==
    \/ glCreateProgram
    \/ \E p \in Ids : glDeleteProgram(p) \/ glLinkProgram(p)
    \/ \E p \in Ids \cup {None} : glUseProgram(p)
    \/ \E name \in Uniforms : \/ \E p \in Ids : glGetUniformLocation(p, name)
                              \/ glUniform(name)
                              \/ glUniformThrows(name)
    \/ ProgramThrows

Spec == Init /\ [][Next]_vars

-----------------------------------------------------------------------------
(* currentProgramInfo is the binding's copy of a state WebGL holds: when it is *)
(* set, it is an entry of the table and WebGL uses that very program; and it   *)
(* is the program the client used last, unless that one was deleted.           *)
CurrentIsInUse ==
    /\ current # None => current \in Known /\ inUse = current
    /\ using \in Known => current = using

(* Every id the client was given still resolves, in its program, to the        *)
(* uniform it asked for, whatever was linked, queried and deleted since.       *)
GivenIdsResolve == \A p \in Known : \A name \in DOMAIN given[p] :
    LET byId == programInfos[p].byId IN
    /\ given[p][name] \in DOMAIN byId
    /\ byId[given[p][name]].program = p /\ byId[given[p][name]].name = name

\* The program p was linked after the location of `name` was cached.
Outdated(p, name) == programInfos[p].byId[given[p][name]].link < links[p]

(* A glUniform* call sets the uniform the client meant or none; it sets none   *)
(* only when the program was linked again after the id was cached: then WebGL  *)
(* refuses the location, which glLinkProgram left in the tables                *)
(* (envGl.ts:326-335).  The tables of a deleted program are gone.              *)
UploadLands == upload.set # upload.asked =>
    /\ upload.set = <<>>
    /\ upload.asked[1] \in Known => Outdated(upload.asked[1], upload.asked[2])

=============================================================================
