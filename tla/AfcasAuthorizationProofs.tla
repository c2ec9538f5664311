----------------------- MODULE AfcasAuthorizationProofs -----------------------
(* The migration and the questions of AfcasAuthorization, for every number of *)
(* proxies, every document and every request.                                 *)
EXTENDS AfcasAuthorization, SequenceTheorems, TLAPS

(* The elements of a sequence, of its tail and of two sequences joined.       *)
LEMMA SequenceElements ==
  ASSUME NEW S, NEW s \in Seq(S)
  PROVE  /\ IsSequence(s) /\ Elements(s) \subseteq S
         /\ Len(s) \in Nat /\ \A n \in 1..Len(s) : s[n] \in Elements(s)
<1>1. /\ Len(s) \in Nat /\ s \in [1..Len(s) -> S]
      /\ \A n \in 1..Len(s) : s[n] \in S
  BY LenProperties, ElementOfSeq
<1>2. s \in [1..Len(s) -> Elements(s)]
  BY <1>1 DEF Elements
<1>3. s \in Seq(Elements(s))
  BY <1>1, <1>2, SeqDef
<1>. QED  BY <1>1, <1>3 DEF Elements, IsSequence

LEMMA TailOfSequence ==
  ASSUME NEW s, IsSequence(s), s # <<>>
  PROVE  /\ IsSequence(Tail(s))
         /\ Elements(s) = {Head(s)} \union Elements(Tail(s))
         /\ Len(s) \in Nat \ {0} /\ Len(Tail(s)) = Len(s) - 1
         /\ Head(s) = s[1]
         /\ \A n \in 1..Len(Tail(s)) : Tail(s)[n] = s[n + 1]
<1>1. /\ Tail(s) \in Seq(Elements(s)) /\ Len(Tail(s)) = Len(s) - 1
      /\ \A n \in 1..Len(Tail(s)) : Tail(s)[n] = s[n + 1]
      /\ Len(s) \in Nat \ {0}
  BY HeadTailProperties, EmptySeq DEF IsSequence
<1>2. Head(s) = s[1]
  BY DEF IsSequence
<1>3. Elements(s) \subseteq {Head(s)} \union Elements(Tail(s))
  <2> SUFFICES ASSUME NEW n \in 1..Len(s), n # 1 PROVE s[n] \in Elements(Tail(s))
    BY <1>2 DEF Elements
  <2>1. n - 1 \in 1..Len(Tail(s)) /\ (n - 1) + 1 = n
    BY <1>1
  <2>. QED  BY <1>1, <2>1 DEF Elements
<1>4. {Head(s)} \union Elements(Tail(s)) \subseteq Elements(s)
  <2>1. 1 \in 1..Len(s) /\ \A n \in 1..Len(Tail(s)) : n + 1 \in 1..Len(s)
    BY <1>1
  <2>. QED  BY <1>1, <1>2, <2>1 DEF Elements
<1>. QED  BY <1>1, <1>2, <1>3, <1>4, SequenceElements

LEMMA JoinOfSequences ==
  ASSUME NEW s, NEW t, IsSequence(s), IsSequence(t)
  PROVE  /\ IsSequence(s \o t)
         /\ Elements(s \o t) = Elements(s) \union Elements(t)
         /\ Len(s) \in Nat /\ Len(t) \in Nat /\ Len(s \o t) = Len(s) + Len(t)
         /\ \A n \in 1..Len(s \o t) :
              (s \o t)[n] = IF n <= Len(s) THEN s[n] ELSE t[n - Len(s)]
<1> DEFINE S == Elements(s) \union Elements(t)
<1>1. s \in Seq(S) /\ t \in Seq(S) /\ Len(s) \in Nat /\ Len(t) \in Nat
  BY SeqMonotonic, LenProperties DEF IsSequence
<1>2. /\ s \o t \in Seq(S) /\ Len(s \o t) = Len(s) + Len(t)
      /\ \A n \in 1..(Len(s) + Len(t)) :
           (s \o t)[n] = IF n <= Len(s) THEN s[n] ELSE t[n - Len(s)]
  BY <1>1, ConcatProperties
<1>3. IsSequence(s \o t) /\ Elements(s \o t) \subseteq S
  BY <1>2, SequenceElements
<1>4. \A n \in 1..Len(s) : n \in 1..Len(s \o t) /\ (s \o t)[n] = s[n]
  BY <1>1, <1>2
<1>5. \A n \in 1..Len(t) : Len(s) + n \in 1..Len(s \o t) /\ (s \o t)[Len(s) + n] = t[n]
  BY <1>1, <1>2
<1>6. S \subseteq Elements(s \o t)
  BY <1>4, <1>5 DEF Elements
<1>. QED  BY <1>1, <1>2, <1>3, <1>6

-----------------------------------------------------------------------------
(* What runMigration sets out to post.                                        *)
Sorted(s) ==
  \A m, n \in 1..Len(s) :
    (m <= n /\ s[m].section = "predicates") => s[n].section = "predicates"

(* A document that declares what its predicates name.                         *)
Consistent(d) ==
  \A p \in Elements(d["predicates"]) :
    /\ p.principal \in Elements(d["principals"])
    /\ p.operation \in Elements(d["operations"])
    /\ p.resource \in Elements(d["resources"])

Closed(s) ==
  \A item \in Elements(s) : item.section = "predicates" => Parts(item.id) \subseteq Elements(s)

LEMMA VectorElements ==
  ASSUME NEW d \in Documents, Parses(d), NEW section \in Sections
  PROVE  /\ IsSequence(Vector(d, section))
         /\ Elements(Vector(d, section)) =
              IF section = "principals" \/ section \in copied
              THEN {Item(section, x) : x \in Elements(d[section])} ELSE {}
<1>1. IsSequence(d[section])
  BY AfcasAssumption DEF Parses
<1>2. Len(d[section]) \in Nat
  BY <1>1, SequenceElements DEF IsSequence
<1>3. CASE section = "principals" \/ section \in copied
  <2> DEFINE V == Items(section, d[section])
  <2>1. V = Vector(d, section)
    BY <1>3 DEF Vector
  <2>2. V \in [1..Len(d[section]) -> {Item(section, x) : x \in Elements(d[section])}]
    BY DEF Items, Elements
  <2>3. V \in Seq({Item(section, x) : x \in Elements(d[section])})
    BY <1>2, <2>2, SeqDef
  <2>4. Len(V) = Len(d[section])
    BY <1>2, <2>2, <2>3, LenProperties
  <2>5. IsSequence(V) /\ Elements(V) \subseteq {Item(section, x) : x \in Elements(d[section])}
    BY <2>3, SequenceElements
  <2>6. {Item(section, x) : x \in Elements(d[section])} \subseteq Elements(V)
    BY <2>4 DEF Items, Elements
  <2>. QED  BY <1>3, <2>1, <2>5, <2>6
<1>4. CASE ~(section = "principals" \/ section \in copied)
  <2>1. Vector(d, section) = <<>>
    BY <1>4 DEF Vector
  <2>2. IsSequence(<<>>) /\ Elements(<<>>) = {}
    <3>1. <<>> \in Seq({}) /\ Len(<<>>) = 0
      BY EmptySeq
    <3>2. Elements(<<>>) = {}
      BY <3>1 DEF Elements
    <3>. QED  BY <3>1, <3>2, SequenceElements
  <2>. QED  BY <1>4, <2>1, <2>2
<1>. QED  BY <1>3, <1>4

LEMMA MigrationElements ==
  ASSUME NEW d \in Documents, Parses(d)
  PROVE  /\ IsSequence(Migration(d)) /\ Sorted(Migration(d))
         /\ (InOrder /\ Consistent(d)) => Closed(Migration(d))
<1> DEFINE A == Vector(d, "principals")  B == Vector(d, "resources")
           C == Vector(d, "operations")  D == Vector(d, "predicates")
           E == A \o B \o C
<1>1. IsSequence(A) /\ IsSequence(B) /\ IsSequence(C) /\ IsSequence(D)
  BY VectorElements DEF Sections
<1>2. /\ Elements(A) = {Item("principals", x) : x \in Elements(d["principals"])}
      /\ "resources" \in copied =>
           Elements(B) = {Item("resources", x) : x \in Elements(d["resources"])}
      /\ "operations" \in copied =>
           Elements(C) = {Item("operations", x) : x \in Elements(d["operations"])}
      /\ Elements(D) = IF "predicates" \in copied
                       THEN {Item("predicates", x) : x \in Elements(d["predicates"])} ELSE {}
  BY VectorElements DEF Sections
<1>3. /\ \A e \in Elements(A) \union Elements(B) \union Elements(C) : e.section # "predicates"
      /\ \A e \in Elements(D) : e.section = "predicates"
  BY VectorElements DEF Sections, Item
<1> HIDE DEF A, B, C, D
<1>4. IsSequence(E) /\ Elements(E) = Elements(A) \union Elements(B) \union Elements(C)
  BY <1>1, JoinOfSequences
<1> HIDE DEF E
<1>5. /\ IsSequence(E \o D) /\ Elements(E \o D) = Elements(E) \union Elements(D)
      /\ Len(E) \in Nat /\ Len(D) \in Nat /\ Len(E \o D) = Len(E) + Len(D)
      /\ \A n \in 1..Len(E \o D) : (E \o D)[n] = IF n <= Len(E) THEN E[n] ELSE D[n - Len(E)]
  BY <1>1, <1>4, JoinOfSequences
<1>6. \A n \in 1..Len(E \o D) : (E \o D)[n].section = "predicates" <=> n > Len(E)
  <2> SUFFICES ASSUME NEW n \in 1..Len(E \o D)
               PROVE  (E \o D)[n].section = "predicates" <=> n > Len(E)
    OBVIOUS
  <2>1. CASE n <= Len(E)
    <3>1. (E \o D)[n] = E[n] /\ n \in 1..Len(E)
      BY <1>5, <2>1
    <3>2. E[n] \in Elements(E)
      BY <3>1 DEF Elements
    <3>. QED  BY <1>3, <1>4, <1>5, <2>1, <3>1, <3>2
  <2>2. CASE n > Len(E)
    <3>1. (E \o D)[n] = D[n - Len(E)] /\ n - Len(E) \in 1..Len(D)
      BY <1>5, <2>2
    <3>2. D[n - Len(E)] \in Elements(D)
      BY <3>1 DEF Elements
    <3>. QED  BY <1>3, <2>2, <3>1, <3>2
  <2>. QED  BY <1>5, <2>1, <2>2
<1>7. Sorted(E \o D)
  <2> SUFFICES ASSUME NEW m \in 1..Len(E \o D), NEW n \in 1..Len(E \o D), m <= n,
                      (E \o D)[m].section = "predicates"
               PROVE  (E \o D)[n].section = "predicates"
    BY DEF Sorted
  <2>1. m > Len(E)
    BY <1>6
  <2>2. n > Len(E)
    BY <1>5, <2>1
  <2>. QED  BY <1>6, <2>2
<1>8. ASSUME InOrder, Consistent(d) PROVE Closed(E \o D)
  <2> SUFFICES ASSUME NEW item \in Elements(E \o D), item.section = "predicates"
               PROVE  Parts(item.id) \subseteq Elements(E \o D)
    BY DEF Closed
  <2>1. item \in Elements(D) /\ "predicates" \in copied
    BY <1>2, <1>3, <1>4, <1>5
  <2>2. PICK p \in Elements(d["predicates"]) : item = Item("predicates", p)
    BY <1>2, <2>1
  <2>3. item.id = p
    BY <2>2 DEF Item
  <2>4. "operations" \in copied /\ "resources" \in copied
    BY <1>8, <2>1 DEF InOrder
  <2>5. /\ Item("principals", p.principal) \in Elements(A)
        /\ Item("resources", p.resource) \in Elements(B)
        /\ Item("operations", p.operation) \in Elements(C)
    BY <1>2, <1>8, <2>4 DEF Consistent
  <2>. QED  BY <1>4, <1>5, <2>3, <2>5 DEF Parts
<1>9. Migration(d) = E \o D
  BY DEF Migration, A, B, C, D, E
<1>. QED  BY <1>5, <1>7, <1>8, <1>9

-----------------------------------------------------------------------------
(* The invariant.  What a proxy has set out to post is on the server, or has  *)
(* been deleted there, or is still to post.  While a request is asked about,  *)
(* a predicate of it has been granted or is still to ask.                     *)
Shapes ==
  /\ DOMAIN phase = Proxies /\ DOMAIN doc = Proxies /\ DOMAIN todo = Proxies
  /\ DOMAIN answer = Proxies /\ DOMAIN asked = Proxies
  /\ \A x \in Proxies : IsSequence(todo[x])
  /\ \A item \in deleted : item.section = "predicates"

Progress ==
  \A x \in Proxies :
    /\ phase[x] \in {"ready", "ask"} => Elements(doc[x]) \subseteq server \union deleted
    /\ phase[x] = "migrate" =>
         /\ Elements(doc[x]) \subseteq server \union deleted \union Elements(todo[x])
         /\ Elements(todo[x]) \subseteq Elements(doc[x])
         /\ Sorted(todo[x])

Asking ==
  \A x \in Proxies :
    /\ answer[x] = "yes" => asked[x] \subseteq granted[x]
    /\ phase[x] = "ask" => answer[x] # "yes"
    /\ phase[x] = "ask" => asked[x] \subseteq granted[x] \union Elements(todo[x])

AfcasInvariant == Shapes /\ Progress /\ Asking

(* A step of the others leaves to a proxy what it has been granted.           *)
LEMMA WitnessKeeps ==
  ASSUME Witness, NEW x \in Proxies, asked'[x] = asked[x]
  PROVE  /\ asked[x] \intersect granted[x] \subseteq granted'[x]
         /\ \A p \in asked[x] : Item("predicates", p) \in server' => p \in granted'[x]
BY DEF Witness

(* A step that takes the head off what one proxy has still to do, and has put *)
(* it on the server, keeps the invariant.                                     *)
LEMMA PostKeeps ==
  ASSUME AfcasInvariant, NEW x \in Proxies, phase[x] = "migrate", todo[x] # <<>>, Witness,
         server' = server \union {Head(todo[x])},
         todo' = [todo EXCEPT ![x] = Tail(@)],
         UNCHANGED <<deleted, phase, doc, answer, asked>>
  PROVE  AfcasInvariant'
<1> USE DEF AfcasInvariant, Shapes
<1>1. /\ IsSequence(Tail(todo[x]))
      /\ Elements(todo[x]) = {Head(todo[x])} \union Elements(Tail(todo[x]))
      /\ Len(todo[x]) \in Nat \ {0} /\ Len(Tail(todo[x])) = Len(todo[x]) - 1
      /\ \A n \in 1..Len(Tail(todo[x])) : Tail(todo[x])[n] = todo[x][n + 1]
  BY TailOfSequence
<1>2. todo'[x] = Tail(todo[x]) /\ \A y \in Proxies \ {x} : todo'[y] = todo[y]
  OBVIOUS
<1>3. Shapes'
  BY <1>1, <1>2
<1>4. Sorted(todo'[x])
  <2>1. \A n \in 1..Len(Tail(todo[x])) : n + 1 \in 1..Len(todo[x])
    BY <1>1
  <2>2. \A m, n \in Nat : m <= n => m + 1 <= n + 1
    OBVIOUS
  <2>3. ASSUME NEW m \in 1..Len(Tail(todo[x])), NEW n \in 1..Len(Tail(todo[x])), m <= n,
               Tail(todo[x])[m].section = "predicates"
        PROVE  Tail(todo[x])[n].section = "predicates"
    BY <1>1, <2>1, <2>2, <2>3 DEF Progress, Sorted
  <2>. QED  BY <1>2, <2>3 DEF Sorted
<1>5. Progress'
  <2> SUFFICES ASSUME NEW y \in Proxies
               PROVE  /\ phase'[y] \in {"ready", "ask"} =>
                           Elements(doc'[y]) \subseteq server' \union deleted'
                      /\ phase'[y] = "migrate" =>
                           /\ Elements(doc'[y]) \subseteq
                                server' \union deleted' \union Elements(todo'[y])
                           /\ Elements(todo'[y]) \subseteq Elements(doc'[y])
                           /\ Sorted(todo'[y])
    BY DEF Progress
  <2>1. CASE y = x
    BY <1>1, <1>2, <1>4, <2>1 DEF Progress
  <2>2. CASE y # x
    BY <1>2, <2>2 DEF Progress
  <2>. QED  BY <2>1, <2>2
<1>6. Asking'
  BY <1>2, WitnessKeeps DEF Asking
<1>. QED  BY <1>3, <1>5, <1>6

(* A proxy that stops, after a post that may have been done, keeps it.        *)
LEMMA FailKeeps ==
  ASSUME AfcasInvariant, NEW x \in Proxies, Fails(x), Witness,
         server \subseteq server',
         UNCHANGED deleted, DOMAIN answer' = Proxies, DOMAIN asked' = Proxies,
         \A y \in Proxies : \/ answer'[y] = answer[y] /\ asked'[y] = asked[y]
                            \/ y = x /\ answer'[y] = "unset" /\ asked'[y] = {}
  PROVE  AfcasInvariant'
<1> USE DEF AfcasInvariant, Shapes, Fails
<1>1. /\ phase'[x] = "down" /\ todo'[x] = <<>>
      /\ \A y \in Proxies \ {x} :
           phase'[y] = phase[y] /\ todo'[y] = todo[y] /\ doc'[y] = doc[y]
  OBVIOUS
<1>2. IsSequence(<<>>)
  BY EmptySeq, SequenceElements
<1>3. Shapes'
  BY <1>1, <1>2
<1>4. Progress'
  BY <1>1 DEF Progress
<1>5. Asking'
  <2> SUFFICES ASSUME NEW y \in Proxies
               PROVE  /\ answer'[y] = "yes" => asked'[y] \subseteq granted'[y]
                      /\ phase'[y] = "ask" => answer'[y] # "yes"
                      /\ phase'[y] = "ask" => asked'[y] \subseteq granted'[y] \union Elements(todo'[y])
    BY DEF Asking
  <2>1. CASE answer'[y] = answer[y] /\ asked'[y] = asked[y]
    BY <1>1, <2>1, WitnessKeeps DEF Asking
  <2>2. CASE y = x /\ answer'[y] = "unset" /\ asked'[y] = {}
    BY <2>2
  <2>. QED  BY <2>1, <2>2
<1>. QED  BY <1>3, <1>4, <1>5

LEMMA AfcasInvariantStep == AfcasInvariant /\ [Next]_vars => AfcasInvariant'
<1> SUFFICES ASSUME AfcasInvariant, [Next]_vars PROVE AfcasInvariant'
  OBVIOUS
<1> USE DEF AfcasInvariant, Shapes
<1>1. ASSUME NEW x \in Proxies, NEW d \in Documents, Construct(x, d) PROVE AfcasInvariant'
  <2>1. IsSequence(Migration(d)) /\ Sorted(Migration(d))
    BY <1>1, MigrationElements DEF Construct
  <2>2. /\ todo'[x] = Migration(d) /\ doc'[x] = Migration(d) /\ phase'[x] = "migrate"
        /\ answer'[x] = "unset" /\ asked'[x] = {}
        /\ \A y \in Proxies \ {x} :
             /\ phase'[y] = phase[y] /\ todo'[y] = todo[y] /\ doc'[y] = doc[y]
             /\ answer'[y] = answer[y] /\ asked'[y] = asked[y]
    BY <1>1 DEF Construct
  <2>3. Shapes'
    BY <1>1, <2>1, <2>2 DEF Construct
  <2>4. Progress'
    BY <1>1, <2>1, <2>2 DEF Construct, Progress
  <2>5. Asking'
    BY <1>1, <2>2, WitnessKeeps DEF Construct, Asking
  <2>. QED  BY <2>3, <2>4, <2>5
<1>2. ASSUME NEW x \in Proxies, NEW section, AddEntity(x, section) PROVE AfcasInvariant'
  <2>1. CASE Fails(x) /\ UNCHANGED server
    BY <1>2, <2>1, FailKeeps DEF AddEntity
  <2>2. CASE server' = server \union {Head(todo[x])}
             /\ todo' = [todo EXCEPT ![x] = Tail(@)] /\ UNCHANGED <<phase, doc>>
    BY <1>2, <2>2, PostKeeps DEF AddEntity, Posts
  <2>. QED  BY <1>2, <2>1, <2>2 DEF AddEntity
<1>3. ASSUME NEW x \in Proxies, AddResourceAccessPredicate(x) PROVE AfcasInvariant'
  BY <1>3, PostKeeps DEF AddResourceAccessPredicate, Posts
<1>4. ASSUME NEW x \in Proxies, LoseReply(x) PROVE AfcasInvariant'
  BY <1>4, FailKeeps DEF LoseReply
<1>5. ASSUME NEW x \in Proxies, Migrated(x) PROVE AfcasInvariant'
  <2>1. Elements(todo[x]) = {}
    BY <1>5, EmptySeq DEF Migrated, Elements
  <2>2. Shapes' /\ Progress'
    BY <1>5, <2>1 DEF Migrated, Progress
  <2>3. Asking'
    BY <1>5, <2>1, WitnessKeeps DEF Migrated, Asking
  <2>. QED  BY <2>2, <2>3
<1>6. ASSUME NEW x \in Proxies, NEW r \in Requests, BeginRequest(x, r) PROVE AfcasInvariant'
  <2>1. IsSequence(r)
    BY AfcasAssumption
  <2>2. /\ todo'[x] = r /\ answer'[x] = "unset" /\ asked'[x] = Elements(r) /\ phase'[x] = "ask"
        /\ \A y \in Proxies \ {x} :
             /\ phase'[y] = phase[y] /\ todo'[y] = todo[y] /\ answer'[y] = answer[y]
             /\ asked'[y] = asked[y] /\ granted'[y] = granted[y]
    BY <1>6 DEF BeginRequest
  <2>. QED  BY <1>6, <2>1, <2>2 DEF BeginRequest, Progress, Asking
<1>7. ASSUME NEW x \in Proxies, Ask(x) PROVE AfcasInvariant'
  <2>0. IsSequence(<<>>)
    BY EmptySeq, SequenceElements
  <2>1. CASE Item("predicates", Head(todo[x])) \in server
             /\ todo' = [todo EXCEPT ![x] = Tail(@)] /\ UNCHANGED <<phase, answer>>
    <3>1. /\ IsSequence(Tail(todo[x])) /\ todo'[x] = Tail(todo[x])
          /\ Elements(todo[x]) = {Head(todo[x])} \union Elements(Tail(todo[x]))
          /\ \A y \in Proxies \ {x} : todo'[y] = todo[y]
      BY <1>7, <2>1, TailOfSequence DEF Ask
    <3>2. Shapes' /\ Progress'
      BY <1>7, <2>1, <3>1 DEF Ask, Progress
    <3>3. asked'[x] \subseteq granted'[x] \union Elements(todo'[x])
      BY <1>7, <2>1, <3>1, WitnessKeeps DEF Ask, Asking
    <3>4. Asking'
      BY <1>7, <2>1, <3>1, <3>3, WitnessKeeps DEF Ask, Asking
    <3>. QED  BY <3>2, <3>4
  <2>2. ASSUME NEW a \in {"no", "unset"}, Answer(x, a) PROVE AfcasInvariant'
    <3>1. /\ phase'[x] = "ready" /\ todo'[x] = <<>> /\ answer'[x] # "yes"
          /\ \A y \in Proxies \ {x} :
               phase'[y] = phase[y] /\ todo'[y] = todo[y] /\ answer'[y] = answer[y]
      BY <2>2 DEF Answer
    <3>2. Shapes' /\ Progress'
      BY <1>7, <2>0, <2>2, <3>1 DEF Ask, Answer, Progress
    <3>3. Asking'
      BY <1>7, <3>1, WitnessKeeps DEF Ask, Asking
    <3>. QED  BY <3>2, <3>3
  <2>. QED  BY <1>7, <2>1, <2>2 DEF Ask
<1>8. ASSUME NEW x \in Proxies, Authorize(x) PROVE AfcasInvariant'
  <2>1. /\ phase[x] = "ask" /\ phase'[x] = "ready" /\ todo'[x] = <<>> /\ Elements(todo[x]) = {}
        /\ \A y \in Proxies \ {x} :
             phase'[y] = phase[y] /\ todo'[y] = todo[y] /\ answer'[y] = answer[y]
    BY <1>8, EmptySeq DEF Authorize, Answer, Elements
  <2>2. IsSequence(<<>>)
    BY EmptySeq, SequenceElements
  <2>3. Shapes' /\ Progress'
    BY <1>8, <2>1, <2>2 DEF Authorize, Answer, Progress
  <2>4. Asking'
    BY <1>8, <2>1, WitnessKeeps DEF Authorize, Asking
  <2>. QED  BY <2>3, <2>4
<1>9. ASSUME NEW item, Delete(item) PROVE AfcasInvariant'
  <2>1. Shapes' /\ Progress'
    BY <1>9 DEF Delete, Progress
  <2>2. Asking'
    BY <1>9, WitnessKeeps DEF Delete, Asking
  <2>. QED  BY <2>1, <2>2
<1>10. ASSUME NEW x \in Proxies, Crash(x) PROVE AfcasInvariant'
  BY <1>10, FailKeeps DEF Crash
<1>11. CASE UNCHANGED vars
  BY <1>11 DEF vars, Progress, Asking
<1>. QED
  BY <1>1, <1>2, <1>3, <1>4, <1>5, <1>6, <1>7, <1>8, <1>9, <1>10, <1>11
     DEF Next, AddPrincipal, AddResource, AddOperation

LEMMA AfcasInvariantHolds == Spec => []AfcasInvariant
<1>1. Init => AfcasInvariant
  <2>1. IsSequence(<<>>)
    BY EmptySeq, SequenceElements
  <2>. QED  BY <2>1 DEF Init, AfcasInvariant, Shapes, Progress, Asking
<1>. QED  BY <1>1, AfcasInvariantStep, PTL DEF Spec

(* A request is authorized only if each of its predicates has been on the     *)
(* server at some moment of it.                                               *)
THEOREM AuthorizedWereGranted == Spec => []AuthorizedMeansGranted
<1>1. AfcasInvariant => AuthorizedMeansGranted
  BY DEF AfcasInvariant, Asking, AuthorizedMeansGranted
<1>. QED  BY <1>1, AfcasInvariantHolds, PTL

(* A strategy that has been constructed has posted all it set out to post.    *)
THEOREM ReadyHaveMigrated == Spec => []ReadyMeansMigrated
<1>1. AfcasInvariant => ReadyMeansMigrated
  BY DEF AfcasInvariant, Progress, ReadyMeansMigrated
<1>. QED  BY <1>1, AfcasInvariantHolds, PTL

-----------------------------------------------------------------------------
(* Where the build copies the vectors in order, what a proxy migrates         *)
(* contains the parts of its predicates, which are posted first.              *)
Whole ==
  InOrder => \A x \in Proxies : phase[x] = "migrate" => Closed(doc[x])

LEMMA PartsFirst ==
  ASSUME AfcasInvariant, Whole, NoDanglingPredicate, InOrder,
         NEW x \in Proxies, phase[x] = "migrate", todo[x] # <<>>,
         NEW item \in server \union {Head(todo[x])}, item.section = "predicates"
  PROVE  Parts(item.id) \subseteq server
<1>1. CASE item \in server
  BY <1>1 DEF NoDanglingPredicate
<1>2. CASE item = Head(todo[x])
  <2>1. /\ Head(todo[x]) = todo[x][1] /\ Len(todo[x]) \in Nat \ {0}
        /\ Head(todo[x]) \in Elements(todo[x])
    BY TailOfSequence DEF AfcasInvariant, Shapes
  <2>2. \A n \in 1..Len(todo[x]) : 1 <= n /\ 1 \in 1..Len(todo[x])
    BY <2>1
  <2>3. \A e \in Elements(todo[x]) : e.section = "predicates"
    BY <1>2, <2>1, <2>2 DEF AfcasInvariant, Progress, Sorted, Elements
  <2>4. Parts(item.id) \subseteq Elements(doc[x])
    BY <1>2, <2>1 DEF Whole, Closed, AfcasInvariant, Progress
  <2>5. \A e \in Parts(item.id) : e.section # "predicates"
    BY DEF Parts, Item
  <2>. QED  BY <2>3, <2>4, <2>5 DEF AfcasInvariant, Shapes, Progress
<1>. QED  BY <1>1, <1>2

(* If documents declare what their predicates name, no predicate is on the    *)
(* server without its parts, whatever is lost and whoever dies.               *)
THEOREM NothingDangles ==
  ASSUME \A d \in Documents : Parses(d) => Consistent(d)
  PROVE  Spec => []NoDanglingPredicate
<1>1. Init => Whole /\ NoDanglingPredicate
  BY DEF Init, Whole, NoDanglingPredicate
<1>2. AfcasInvariant /\ Whole /\ NoDanglingPredicate /\ [Next]_vars
        => (Whole /\ NoDanglingPredicate)'
  <2> SUFFICES ASSUME AfcasInvariant, Whole, NoDanglingPredicate, [Next]_vars
               PROVE  Whole' /\ NoDanglingPredicate'
    OBVIOUS
  <2> USE DEF AfcasInvariant, Shapes
  <2>1. ASSUME NEW x \in Proxies, NEW d \in Documents, Construct(x, d)
        PROVE  Whole' /\ NoDanglingPredicate'
    <3>1. InOrder => Closed(Migration(d))
      BY <2>1, MigrationElements DEF Construct
    <3>2. doc'[x] = Migration(d) /\ \A y \in Proxies \ {x} : doc'[y] = doc[y] /\ phase'[y] = phase[y]
      BY <2>1 DEF Construct
    <3>. QED  BY <2>1, <3>1, <3>2 DEF Construct, Whole, NoDanglingPredicate, InOrder
  <2>2. ASSUME NEW x \in Proxies, phase[x] = "migrate", todo[x] # <<>>,
               server' \in {server, server \union {Head(todo[x])}}, UNCHANGED copied,
               (UNCHANGED <<phase, doc>>) \/ Fails(x)
        PROVE  Whole' /\ NoDanglingPredicate'
    <3>1. Whole'
      <4>1. \A y \in Proxies : phase'[y] = "migrate" => phase[y] = "migrate" /\ doc'[y] = doc[y]
        BY <2>2 DEF Fails
      <4>. QED  BY <2>2, <4>1 DEF Whole, InOrder
    <3>2. NoDanglingPredicate'
      BY <2>2, PartsFirst DEF NoDanglingPredicate, InOrder
    <3>. QED  BY <3>1, <3>2
  <2>3. ASSUME NEW x \in Proxies, NEW section, AddEntity(x, section)
        PROVE  Whole' /\ NoDanglingPredicate'
    BY <2>2, <2>3 DEF AddEntity, Posts
  <2>4. ASSUME NEW x \in Proxies, AddResourceAccessPredicate(x)
        PROVE  Whole' /\ NoDanglingPredicate'
    BY <2>2, <2>4 DEF AddResourceAccessPredicate, Posts
  <2>5. ASSUME NEW x \in Proxies, LoseReply(x) PROVE Whole' /\ NoDanglingPredicate'
    BY <2>2, <2>5 DEF LoseReply
  <2>6. ASSUME UNCHANGED <<copied, server>>,
               \A y \in Proxies : phase'[y] = "migrate" => phase[y] = "migrate" /\ doc'[y] = doc[y]
        PROVE  Whole' /\ NoDanglingPredicate'
    BY <2>6 DEF Whole, NoDanglingPredicate, InOrder
  <2>7. ASSUME NEW x \in Proxies, Migrated(x) \/ Crash(x) \/ Ask(x) \/ Authorize(x)
        PROVE  Whole' /\ NoDanglingPredicate'
    BY <2>6, <2>7 DEF Migrated, Crash, Fails, Ask, Authorize, Answer
  <2>8. ASSUME NEW x \in Proxies, NEW r \in Requests, BeginRequest(x, r)
        PROVE  Whole' /\ NoDanglingPredicate'
    BY <2>6, <2>8 DEF BeginRequest
  <2>9. ASSUME NEW item, Delete(item) PROVE Whole' /\ NoDanglingPredicate'
    <3>1. \A p : item \notin Parts(p)
      BY <2>9 DEF Delete, Parts, Item
    <3>2. server' = server \ {item} /\ UNCHANGED <<copied, phase, doc>>
      BY <2>9 DEF Delete
    <3>. QED  BY <3>1, <3>2 DEF Whole, NoDanglingPredicate, InOrder
  <2>10. CASE UNCHANGED vars
    BY <2>6, <2>10 DEF vars
  <2>. QED
    BY <2>1, <2>3, <2>4, <2>5, <2>7, <2>8, <2>9, <2>10
       DEF Next, AddPrincipal, AddResource, AddOperation
<1>. QED  BY <1>1, <1>2, AfcasInvariantHolds, PTL DEF Spec
=============================================================================
