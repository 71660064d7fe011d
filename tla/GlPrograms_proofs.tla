-------------------------- MODULE GlPrograms_proofs --------------------------
(* The ids of uniforms, for any number of programs, uniforms and links: the    *)
(* binding's idea of the program in use is WebGL's, an id keeps its uniform,   *)
(* and an upload never reaches a uniform the client did not mean.              *)
EXTENDS GlPrograms, FiniteSetTheorems, TLAPS

\* The three Maps of the program p agree: as many ids as names, 1, 2, ..., each
\* name under its own id, each id with a location obtained from p after a link.
InfoOK(p) ==
    LET info == programInfos[p] IN
    /\ DOMAIN info.location = DOMAIN info.id
    /\ IsFiniteSet(DOMAIN info.id)
    /\ DOMAIN info.byId = 1 .. Cardinality(DOMAIN info.id)
    /\ \A name \in DOMAIN info.id :
          info.id[name] \in DOMAIN info.byId /\ info.byId[info.id[name]].name = name
    /\ \A id \in DOMAIN info.byId :
          info.byId[id].program = p /\ info.byId[id].link \in 1 .. links[p]

\* What the client holds for p are ids of the table of p.
GivenOK(p) == \A name \in DOMAIN given[p] :
    name \in DOMAIN programInfos[p].id /\ given[p][name] = programInfos[p].id[name]

\* Ids are given out once, and nothing is known of a program before.
Tables ==
    /\ nextProgramId \in 1 .. (MaxPrograms + 1)
    /\ Known \subseteq Created
    /\ links \in [Ids -> Nat]
    /\ active \in [Ids -> SUBSET Uniforms]
    /\ DOMAIN given = Ids
    /\ \A p \in Ids : active[p] # {} => links[p] >= 1
    /\ \A p \in Ids \ Created : DOMAIN given[p] = {}
    /\ \A p \in Known : InfoOK(p) /\ GivenOK(p)

\* The three ideas of the program in use: the binding's, WebGL's, the client's.
InUse ==
    /\ using \in Created \cup {None}
    /\ current \in {None, using}
    /\ current # None => current \in Known /\ inUse = current
    /\ using \in Known => current = using

\* An upload that went wrong was refused, for a location of an earlier link.
Landed ==
    LET p == upload.asked[1]
        name == upload.asked[2]
    IN  upload.set # upload.asked =>
            /\ upload.set = <<>> /\ p \in Created
            /\ p \in Known => name \in DOMAIN given[p] /\ Outdated(p, name)

\* The inductive invariant.
IInv == Tables /\ InUse /\ Landed

-----------------------------------------------------------------------------
\* Ids are natural numbers, and none of them is None.
LEMMA IdsPositive ==
    /\ MaxPrograms \in Nat /\ Ids \subseteq Nat \ {0} /\ None \notin Ids
    /\ \A n \in 1 .. (MaxPrograms + 1) : 1 .. (n - 1) \subseteq Ids
BY BoundsAssumption DEF Ids, None

\* Entering a new name gives it the next id and leaves the others theirs.
LEMMA EnterOK ==
    ASSUME NEW p, InfoOK(p), NEW name, name \notin DOMAIN programInfos[p].id,
           NEW l, l.program = p, l.name = name, l.link \in 1 .. links[p],
           DOMAIN programInfos' = DOMAIN programInfos, p \in Known,
           programInfos'[p] = Enter(programInfos[p], name, l),
           links' = links
    PROVE  /\ InfoOK(p)'
           /\ DOMAIN programInfos'[p].id = DOMAIN programInfos[p].id \cup {name}
           /\ \A id \in DOMAIN programInfos[p].byId :
                 programInfos'[p].byId[id] = programInfos[p].byId[id]
           /\ \A other \in DOMAIN programInfos[p].id :
                 programInfos'[p].id[other] = programInfos[p].id[other]
<1> DEFINE info == programInfos[p]
           new == programInfos'[p]
           names == DOMAIN info.id
           n == Cardinality(names)
<1>1. /\ DOMAIN info.location = names /\ IsFiniteSet(names) /\ n \in Nat
      /\ DOMAIN info.byId = 1 .. n
      /\ \A other \in names :
            info.id[other] \in 1 .. n /\ info.byId[info.id[other]].name = other
      /\ \A id \in 1 .. n : info.byId[id].program = p /\ info.byId[id].link \in 1 .. links[p]
    BY FS_CardinalityType DEF InfoOK
<1>2. Cardinality(names \cup {name}) = n + 1 /\ IsFiniteSet(names \cup {name})
    BY <1>1, FS_AddElement
<1> HIDE DEF n
<1>3. /\ new.location = With(info.location, name, l)
      /\ new.id = With(info.id, name, n + 1)
      /\ new.byId = With(info.byId, n + 1, l)
    BY <1>1, <1>2 DEF Enter
<1>4. /\ DOMAIN new.location = names \cup {name} /\ DOMAIN new.id = names \cup {name}
      /\ new.id[name] = n + 1
      /\ \A other \in names : new.id[other] = info.id[other]
    BY <1>1, <1>3 DEF With
<1>5. DOMAIN new.byId = 1 .. (n + 1)
    BY <1>1, <1>3 DEF With
<1>6. new.byId[n + 1] = l /\ \A id \in 1 .. n : new.byId[id] = info.byId[id]
    BY <1>1, <1>3 DEF With
<1>7. \A other \in DOMAIN new.id :
         new.id[other] \in DOMAIN new.byId /\ new.byId[new.id[other]].name = other
    <2>1. n + 1 \in 1 .. (n + 1) /\ 1 .. n \subseteq 1 .. (n + 1)
        BY <1>1
    <2>2. new.id[name] \in DOMAIN new.byId /\ new.byId[new.id[name]].name = name
        BY <1>4, <1>5, <1>6, <2>1
    <2>3. ASSUME NEW other \in names
          PROVE  new.id[other] \in DOMAIN new.byId /\ new.byId[new.id[other]].name = other
        <3>1. new.id[other] = info.id[other] /\ new.id[other] \in 1 .. n
            BY <1>1, <1>4, <2>3
        <3>2. new.byId[new.id[other]] = info.byId[info.id[other]]
            BY <1>6, <3>1
        <3> QED
            BY <1>1, <1>5, <2>1, <3>1, <3>2
    <2> QED
        BY <1>4, <2>2, <2>3
<1>8. \A id \in DOMAIN new.byId : new.byId[id].program = p /\ new.byId[id].link \in 1 .. links[p]
    BY <1>1, <1>5, <1>6
<1>9. DOMAIN new.byId = 1 .. Cardinality(DOMAIN new.id)
    BY <1>2, <1>4, <1>5
<1> QED
    BY <1>1, <1>2, <1>4, <1>6, <1>7, <1>8, <1>9 DEF InfoOK

\* A program whose info, links and ids at the client stay is as good as before.
LEMMA SameInfo ==
    ASSUME NEW p, InfoOK(p), GivenOK(p), programInfos'[p] = programInfos[p],
           links[p] \in Nat, links'[p] \in Nat, links'[p] >= links[p],
           given'[p] = given[p]
    PROVE  InfoOK(p)' /\ GivenOK(p)'
<1>1. \A n \in 1 .. links[p] : n \in 1 .. links'[p]
    OBVIOUS
<1>2. InfoOK(p)'
    BY <1>1 DEF InfoOK
<1>3. GivenOK(p)'
    BY DEF GivenOK
<1> QED
    BY <1>2, <1>3

\* A step that uploads nothing leaves an outdated location outdated: it makes no
\* known program out of an old one, and keeps the locations it has given ids for.
LEMMA LandedKept ==
    ASSUME IInv, upload' = upload, Created \subseteq Created',
           Known' \cap Created \subseteq Known,
           \A p \in Known \cap Known' :
              /\ links'[p] \in Nat /\ links'[p] >= links[p]
              /\ \A name \in DOMAIN given[p] :
                    /\ name \in DOMAIN given'[p]
                    /\ programInfos'[p].byId[given'[p][name]]
                         = programInfos[p].byId[given[p][name]]
    PROVE  Landed'
<1> DEFINE p == upload.asked[1]
           name == upload.asked[2]
<1> SUFFICES ASSUME upload.set # upload.asked
             PROVE  /\ upload.set = <<>> /\ p \in Created'
                    /\ p \in Known' => name \in DOMAIN given'[p] /\ Outdated(p, name)'
    BY DEF Landed
<1>1. upload.set = <<>> /\ p \in Created
    BY DEF IInv, Landed
<1>2. ASSUME p \in Known' PROVE name \in DOMAIN given'[p] /\ Outdated(p, name)'
    <2> DEFINE l == programInfos[p].byId[given[p][name]]
    <2>1. p \in Known /\ p \in Ids
        BY <1>1, <1>2, IdsPositive DEF IInv, Tables, Created
    <2>2. name \in DOMAIN given[p] /\ l.link < links[p]
        BY <2>1 DEF IInv, Landed, Outdated
    <2>3. InfoOK(p) /\ GivenOK(p) /\ links[p] \in Nat
        BY <2>1 DEF IInv, Tables
    <2>4. l.link \in Nat
        <3> DEFINE info == programInfos[p]
        <3>1. name \in DOMAIN info.id /\ given[p][name] = info.id[name]
            BY <2>2, <2>3 DEF GivenOK
        <3>2. given[p][name] \in DOMAIN info.byId
            BY <2>3, <3>1 DEF InfoOK
        <3>3. l.link \in 1 .. links[p]
            BY <2>3, <3>2 DEF InfoOK
        <3> HIDE DEF l
        <3> QED
            BY <2>3, <3>3
    <2>5. /\ links'[p] \in Nat /\ links'[p] >= links[p] /\ name \in DOMAIN given'[p]
          /\ programInfos'[p].byId[given'[p][name]] = l
        BY <1>2, <2>1, <2>2
    <2> HIDE DEF l
    <2>6. l.link < links'[p]
        BY <2>2, <2>3, <2>4, <2>5
    <2> QED
        BY <2>5, <2>6 DEF Outdated
<1> QED
    BY <1>1, <1>2

-----------------------------------------------------------------------------
\* No program, no uniform: the invariant holds at the start.
LEMMA InitIInv == Init => IInv
<1> SUFFICES ASSUME Init PROVE IInv
    OBVIOUS
<1>1. DOMAIN <<>> = {}
    OBVIOUS
<1>2. Known = {} /\ \A p \in Ids : DOMAIN given[p] = {}
    BY <1>1 DEF Init, Known
<1>3. Tables
    BY <1>1, <1>2, IdsPositive DEF Init, Tables
<1>4. InUse /\ Landed
    BY DEF Init, InUse, Landed
<1> QED
    BY <1>3, <1>4 DEF IInv

\* A new program takes an id nobody holds anything for.
LEMMA CreateStep ==
    ASSUME IInv, glCreateProgram
    PROVE  IInv'
<1>0. PICK p \in Ids : p = nextProgramId
    BY IdsPositive DEF IInv, Tables, glCreateProgram, Ids
<1>1. /\ programInfos' = With(programInfos, p, NewInfo)
      /\ nextProgramId' = p + 1 /\ UNCHANGED <<current, webgl, client>>
      /\ p <= MaxPrograms
    BY <1>0 DEF glCreateProgram
<1>2. /\ Known' = Known \cup {p} /\ p \notin Known /\ programInfos'[p] = NewInfo
      /\ \A q \in Known : programInfos'[q] = programInfos[q]
    BY <1>0, <1>1 DEF IInv, Tables, Known, Created, With
<1>3. nextProgramId' \in 1 .. (MaxPrograms + 1) /\ Known' \subseteq Created'
    <2>1. p \in Nat \ {0} /\ MaxPrograms \in Nat
        BY IdsPositive
    <2>2. Known \subseteq 1 .. (p - 1) /\ Created' = 1 .. p
        BY <1>0, <1>1, <2>1 DEF IInv, Tables, Created
    <2>3. nextProgramId' \in 1 .. (MaxPrograms + 1) /\ p \in 1 .. p
        BY <1>1, <2>1
    <2>4. 1 .. (p - 1) \subseteq 1 .. p
        BY <2>1
    <2> QED
        BY <1>2, <2>2, <2>3, <2>4
<1>4. \A q \in Known : InfoOK(q)' /\ GivenOK(q)'
    <2>1. \A q \in Known : q \in Ids /\ links[q] \in Nat /\ links'[q] = links[q]
                            /\ given'[q] = given[q]
        BY <1>1, IdsPositive DEF IInv, Tables, Created, webgl, client
    <2> QED
        BY <1>2, <2>1, SameInfo DEF IInv, Tables
<1>5. InfoOK(p)'
    <2>1. /\ programInfos'[p].location = <<>> /\ programInfos'[p].id = <<>>
          /\ programInfos'[p].byId = <<>>
        BY <1>2 DEF NewInfo
    <2>2. DOMAIN <<>> = {} /\ IsFiniteSet({}) /\ Cardinality({}) = 0
        BY FS_EmptySet
    <2> QED
        BY <2>1, <2>2 DEF InfoOK
<1>6. GivenOK(p)'
    <2>1. p \in Ids \ Created
        BY <1>0 DEF Created
    <2> QED
        BY <1>1, <2>1 DEF IInv, Tables, GivenOK, client
<1>7. \A q \in Ids \ Created' : DOMAIN given'[q] = {}
    <2>1. Created \subseteq Created'
        BY <1>0, <1>1, IdsPositive DEF Created
    <2> QED
        BY <1>1, <2>1 DEF IInv, Tables, client
<1>8. Tables'
    BY <1>1, <1>2, <1>3, <1>4, <1>5, <1>6, <1>7 DEF IInv, Tables, webgl, client
<1>9. using # p /\ using \in Created' \cup {None}
    BY <1>0, <1>1, IdsPositive DEF IInv, InUse, Created
<1>10. Landed'
    <2>1. p \notin Created /\ Created \subseteq Created'
        BY <1>0, <1>1, IdsPositive DEF Created
    <2>2. \A q \in Known : q \in Ids /\ links[q] \in Nat
        BY IdsPositive DEF IInv, Tables, Created
    <2> QED
        BY <1>1, <1>2, <2>1, <2>2, LandedKept DEF webgl, client
<1> QED
    BY <1>1, <1>2, <1>8, <1>9, <1>10 DEF IInv, InUse, webgl, client

\* Deleting the current program clears the binding's idea of it.
LEMMA DeleteStep ==
    ASSUME IInv, NEW p \in Ids, glDeleteProgram(p)
    PROVE  IInv'
<1>1. /\ programInfos' = [q \in Known \ {p} |-> programInfos[q]] /\ p \in Known
      /\ current' = IF current = p THEN None ELSE current
      /\ UNCHANGED <<nextProgramId, webgl, client>>
    BY DEF glDeleteProgram
<1>2. /\ Known' = Known \ {p} /\ \A q \in Known' : programInfos'[q] = programInfos[q]
    BY <1>1 DEF Known
<1>3. \A q \in Known' : InfoOK(q)' /\ GivenOK(q)'
    <2>1. \A q \in Known : links[q] \in Nat /\ links'[q] = links[q] /\ given'[q] = given[q]
        BY <1>1, IdsPositive DEF IInv, Tables, Created, webgl, client
    <2> QED
        BY <1>2, <2>1, SameInfo DEF IInv, Tables
<1>4. Created' = Created
    BY <1>1 DEF Created
<1>5. Tables'
    BY <1>1, <1>2, <1>3, <1>4 DEF IInv, Tables, webgl, client
<1>6. InUse'
    BY <1>1, <1>2, <1>4 DEF IInv, InUse, webgl, client
<1>7. Landed'
    <2>1. \A q \in Known : links[q] \in Nat
        BY IdsPositive DEF IInv, Tables, Created
    <2> QED
        BY <1>1, <1>2, <1>4, <2>1, LandedKept DEF webgl, client
<1> QED
    BY <1>5, <1>6, <1>7 DEF IInv

\* A link counts up and leaves the Maps alone.
LEMMA LinkStep ==
    ASSUME IInv, NEW p \in Ids, glLinkProgram(p)
    PROVE  IInv'
<1>1. /\ links' = [links EXCEPT ![p] = links[p] + 1] /\ UNCHANGED <<code, inUse, client>>
    BY DEF glLinkProgram, Linked
<1>2. PICK us \in SUBSET Uniforms : active' = [active EXCEPT ![p] = us]
    BY DEF glLinkProgram, Linked
<1>3. /\ links \in [Ids -> Nat] /\ links' \in [Ids -> Nat]
      /\ \A q \in Ids : links'[q] >= links[q] /\ links'[p] >= 1
    BY <1>1 DEF IInv, Tables
<1>4. /\ active' \in [Ids -> SUBSET Uniforms]
      /\ \A q \in Ids : active'[q] # {} => links'[q] >= 1
    BY <1>1, <1>2, <1>3 DEF IInv, Tables
<1>5. Known' = Known /\ Created' = Created
    BY <1>1 DEF code, Known, Created
<1>6. \A q \in Known : InfoOK(q)' /\ GivenOK(q)'
    <2>1. \A q \in Known : q \in Ids
        BY IdsPositive DEF IInv, Tables, Created
    <2> QED
        BY <1>1, <1>3, <2>1, SameInfo DEF IInv, Tables, code, client
<1>7. Tables'
    BY <1>1, <1>3, <1>4, <1>5, <1>6 DEF IInv, Tables, code, client
<1>8. InUse'
    BY <1>1, <1>5 DEF IInv, InUse, code, client
<1>9. Landed'
    <2>1. \A q \in Known : q \in Ids
        BY IdsPositive DEF IInv, Tables, Created
    <2> QED
        BY <1>1, <1>3, <1>5, <2>1, LandedKept DEF code, client
<1> QED
    BY <1>7, <1>8, <1>9 DEF IInv

\* A query answers with the id the name has, or enters the name.
LEMMA GetUniformLocationStep ==
    ASSUME IInv, NEW p \in Ids, NEW name \in Uniforms, glGetUniformLocation(p, name)
    PROVE  IInv'
<1>1. /\ p \in Known /\ name \in DOMAIN programInfos[p].id \cup active[p]
      /\ given' = [given EXCEPT ![p] = With(given[p], name, programInfos'[p].id[name])]
      /\ UNCHANGED <<nextProgramId, current, webgl, using, upload, running>>
    BY DEF glGetUniformLocation
<1>2. /\ DOMAIN programInfos' = DOMAIN programInfos
      /\ \A q \in Known : q # p => programInfos'[q] = programInfos[q]
    BY DEF glGetUniformLocation, Known
<1>3. /\ links \in [Ids -> Nat] /\ links' = links /\ DOMAIN given = Ids
      /\ \A q \in Known : q \in Ids /\ InfoOK(q) /\ GivenOK(q)
    BY <1>1, IdsPositive DEF IInv, Tables, Created, webgl
<1>4. /\ InfoOK(p)'
      /\ name \in DOMAIN programInfos'[p].id
      /\ \A other \in DOMAIN programInfos[p].id :
            /\ other \in DOMAIN programInfos'[p].id
            /\ programInfos'[p].id[other] = programInfos[p].id[other]
      /\ \A id \in DOMAIN programInfos[p].byId :
            programInfos'[p].byId[id] = programInfos[p].byId[id]
    <2>1. CASE name \in DOMAIN programInfos[p].id
        <3>1. programInfos' = programInfos
            BY <2>1 DEF glGetUniformLocation
        <3> QED
            BY <1>1, <1>3, <2>1, <3>1 DEF InfoOK
    <2>2. CASE name \notin DOMAIN programInfos[p].id
        <3> DEFINE l == Location(p, name)
        <3>1. programInfos'[p] = Enter(programInfos[p], name, l)
            BY <1>1, <2>2 DEF glGetUniformLocation, Known
        <3>2. active[p] # {}
            BY <1>1, <2>2
        <3>3. links[p] >= 1 /\ links[p] \in Nat
            BY <1>3, <3>2 DEF IInv, Tables
        <3>4. l.program = p /\ l.name = name /\ l.link \in 1 .. links[p]
            BY <3>3 DEF Location
        <3> HIDE DEF l
        <3>5. /\ InfoOK(p)'
              /\ DOMAIN programInfos'[p].id = DOMAIN programInfos[p].id \cup {name}
              /\ \A id \in DOMAIN programInfos[p].byId :
                    programInfos'[p].byId[id] = programInfos[p].byId[id]
              /\ \A other \in DOMAIN programInfos[p].id :
                    programInfos'[p].id[other] = programInfos[p].id[other]
            BY <1>1, <1>2, <1>3, <2>2, <3>1, <3>4, EnterOK
        <3> QED
            BY <3>5
    <2> QED
        BY <2>1, <2>2
<1>5. GivenOK(p)'
    <2>1. given'[p] = With(given[p], name, programInfos'[p].id[name])
        BY <1>1, <1>3
    <2> QED
        BY <1>1, <1>3, <1>4, <2>1 DEF GivenOK, With
<1>6. \A q \in Known : q # p => InfoOK(q)' /\ GivenOK(q)'
    <2>1. \A q \in Known : q # p => given'[q] = given[q]
        BY <1>1, <1>3
    <2> QED
        BY <1>2, <1>3, <2>1, SameInfo
<1>7. Known' = Known /\ Created' = Created
    BY <1>1, <1>2 DEF Known, Created
<1>8. \A q \in Ids \ Created : DOMAIN given'[q] = {}
    <2>1. p \in Created
        BY <1>1 DEF IInv, Tables
    <2> QED
        BY <1>1, <2>1 DEF IInv, Tables
<1>9. Tables'
    BY <1>1, <1>3, <1>4, <1>5, <1>6, <1>7, <1>8 DEF IInv, Tables, webgl
<1>10. InUse'
    BY <1>1, <1>7 DEF IInv, InUse, webgl
<1>11. \A q \in Known : \A other \in DOMAIN given[q] :
          /\ other \in DOMAIN given'[q]
          /\ programInfos'[q].byId[given'[q][other]] = programInfos[q].byId[given[q][other]]
    <2>1. ASSUME NEW q \in Known, q # p, NEW other \in DOMAIN given[q]
          PROVE  given'[q] = given[q] /\ programInfos'[q] = programInfos[q]
        BY <1>1, <1>2, <1>3, <2>1
    <2>2. ASSUME NEW other \in DOMAIN given[p]
          PROVE  /\ other \in DOMAIN given'[p]
                 /\ programInfos'[p].byId[given'[p][other]]
                      = programInfos[p].byId[given[p][other]]
        <3>1. /\ other \in DOMAIN programInfos[p].id /\ given[p][other] = programInfos[p].id[other]
              /\ programInfos[p].id[other] \in DOMAIN programInfos[p].byId
            BY <1>1, <1>3, <2>2 DEF GivenOK, InfoOK
        <3>2. given'[p] = With(given[p], name, programInfos'[p].id[name])
            BY <1>1, <1>3
        <3>3. other \in DOMAIN given'[p] /\ given'[p][other] = programInfos[p].id[other]
            BY <1>4, <2>2, <3>1, <3>2 DEF With
        <3> QED
            BY <1>4, <3>1, <3>3
    <2> QED
        BY <2>1, <2>2
<1>12. Landed'
    BY <1>1, <1>3, <1>7, <1>11, LandedKept
<1> QED
    BY <1>9, <1>10, <1>12 DEF IInv

\* What an upload resolves is a location of the program in use, obtained after
\* one of its links, of the uniform that was asked for.
LEMMA Resolved ==
    ASSUME IInv, using # None, NEW name \in DOMAIN given[using],
           NEW l \in Resolve(given[using][name])
    PROVE  /\ using \in Ids /\ inUse = using /\ l.program = using /\ l.name = name
           /\ l.link \in 1 .. links[using] /\ links[using] \in Nat
<1>1. /\ current # None /\ l = programInfos[current].byId[given[using][name]]
      /\ given[using][name] \in DOMAIN programInfos[current].byId
    BY DEF Resolve
<1>2. current = using /\ current \in Known /\ inUse = current
    BY <1>1 DEF IInv, InUse
<1>3. InfoOK(using) /\ GivenOK(using) /\ using \in Ids /\ links[using] \in Nat
    BY <1>2, IdsPositive DEF IInv, Tables, Created
<1>4. given[using][name] = programInfos[using].id[name]
      /\ name \in DOMAIN programInfos[using].id
    BY <1>3 DEF GivenOK
<1> QED
    BY <1>1, <1>2, <1>3, <1>4 DEF InfoOK

\* An upload sets what was asked, or WebGL refuses it after a second link.
LEMMA UniformStep ==
    ASSUME IInv, NEW name \in Uniforms, glUniform(name)
    PROVE  IInv'
<1>1. /\ using # None /\ name \in DOMAIN given[using]
      /\ UNCHANGED <<code, webgl, given, using, running>>
    BY DEF glUniform
<1>2. PICK l \in Resolve(given[using][name]) :
         upload' = [asked |-> <<using, name>>,
                    set |-> IF l.program = inUse /\ l.link = links[inUse]
                            THEN <<l.program, l.name>> ELSE <<>>]
    BY DEF glUniform
<1>3. /\ using \in Ids /\ inUse = using /\ l.program = using /\ l.name = name
      /\ l.link \in 1 .. links[using] /\ links[using] \in Nat
    BY <1>1, <1>2, Resolved
<1>4. /\ upload'.asked = <<using, name>>
      /\ upload'.asked[1] = using /\ upload'.asked[2] = name
    BY <1>2
<1>5. upload'.set # upload'.asked => upload'.set = <<>> /\ l.link < links[using]
    BY <1>2, <1>3
<1>6. Landed'
    <2>1. l = programInfos[using].byId[given[using][name]] /\ using \in Known
        BY <1>1, <1>2 DEF Resolve, IInv, InUse
    <2>2. using \in Created /\ Created' = Created
        BY <1>1, <2>1 DEF IInv, Tables, Created, code
    <2>3. \A p : Outdated(p, name)' <=> Outdated(p, name)
        BY <1>1 DEF Outdated, code, webgl
    <2>4. upload'.set # upload'.asked => Outdated(using, name)
        BY <1>5, <2>1 DEF Outdated
    <2> QED
        BY <1>1, <1>4, <1>5, <2>2, <2>3, <2>4 DEF Landed
<1>7. Known' = Known /\ Created' = Created
    BY <1>1 DEF code, Known, Created
<1>8. \A q \in Known : InfoOK(q)' /\ GivenOK(q)'
    <2>1. \A q \in Known : links[q] \in Nat
        BY IdsPositive DEF IInv, Tables, Created
    <2> QED
        BY <1>1, <2>1, SameInfo DEF IInv, Tables, code, webgl
<1>9. Tables' /\ InUse'
    BY <1>1, <1>7, <1>8 DEF IInv, Tables, InUse, code, webgl
<1> QED
    BY <1>6, <1>9 DEF IInv

\* Steps that leave every Map and every link alone.
LEMMA OtherStep ==
    ASSUME IInv,
           \/ \E p \in Ids \cup {None} : glUseProgram(p)
           \/ \E name \in Uniforms : glUniformThrows(name)
           \/ ProgramThrows \/ UNCHANGED vars
    PROVE  IInv'
<1>1. UNCHANGED <<programInfos, nextProgramId, links, active, given, upload>>
    BY DEF glUseProgram, glUniformThrows, ProgramThrows, vars, code, webgl, client
<1>2. Known' = Known /\ Created' = Created
    BY <1>1 DEF Known, Created
<1>3. \A q \in Known : InfoOK(q)' /\ GivenOK(q)'
    <2>1. \A q \in Known : links[q] \in Nat
        BY IdsPositive DEF IInv, Tables, Created
    <2> QED
        BY <1>1, <2>1, SameInfo DEF IInv, Tables
<1>4. Tables'
    BY <1>1, <1>2, <1>3 DEF IInv, Tables
<1>5. Landed'
    BY <1>1, <1>2 DEF IInv, Landed, Outdated
<1>6. InUse'
    <2>1. ASSUME NEW p \in Ids \cup {None}, glUseProgram(p) PROVE InUse'
        BY <1>2, <2>1, IdsPositive DEF IInv, Tables, InUse, glUseProgram
    <2>2. CASE UNCHANGED <<current, using, inUse>>
        BY <1>2, <2>2 DEF IInv, InUse
    <2> QED
        BY <2>1, <2>2 DEF glUniformThrows, ProgramThrows, vars, code, webgl, client
<1> QED
    BY <1>4, <1>5, <1>6 DEF IInv

\* Every step keeps the invariant.
LEMMA NextIInv == IInv /\ [Next]_vars => IInv'
BY CreateStep, DeleteStep, LinkStep, GetUniformLocationStep, UniformStep, OtherStep
   DEF Next

-----------------------------------------------------------------------------
\* The Maps, the program in use and the ids of the client agree in every
\* reachable state.
THEOREM Invariant == Spec => []IInv
BY InitIInv, NextIInv, PTL DEF Spec

\* currentProgramInfo is the program WebGL has in use, and the one the client
\* used last unless it was deleted (envGl.ts: glUseProgram, glDeleteProgram).
THEOREM CurrentFollowsUse == Spec => []CurrentIsInUse
<1>1. IInv => CurrentIsInUse
    BY DEF IInv, InUse, CurrentIsInUse
<1> QED
    BY <1>1, Invariant, PTL

\* An id keeps its uniform, however often the program is linked and queried.
THEOREM IdsKept == Spec => []GivenIdsResolve
<1>1. IInv => GivenIdsResolve
    BY DEF IInv, Tables, InfoOK, GivenOK, GivenIdsResolve
<1> QED
    BY <1>1, Invariant, PTL

\* An upload sets the uniform the client meant; else WebGL refused it, because
\* the program was linked again after the id was cached (envGl.ts:326-335).
THEOREM UploadsLand == Spec => []UploadLands
<1>1. IInv => UploadLands
    BY DEF IInv, Landed, UploadLands
<1> QED
    BY <1>1, Invariant, PTL
=============================================================================
