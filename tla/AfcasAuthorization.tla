-------------------------- MODULE AfcasAuthorization --------------------------
(* src/authorization/AfcasAuthorizationStrategy.h and BaseAuthorization-      *)
(* Strategy.h over src/afcas/AfcasClient.cpp: proxies that parse a document,  *)
(* post what it declares to one AFCAS server, and then ask that server about  *)
(* every request.  The server is external, known by how the client reads its  *)
(* answers.  Replies get lost and proxies die at any point.                   *)
EXTENDS Naturals, Sequences

CONSTANTS
  Proxies,      \* processes, each with a strategy of its own
  Documents,    \* functions from section names to sequences
  Requests,     \* sequences of the predicates that a request needs
  Servers       \* the kinds of entity of which a server accepts a second post

Sections == {"principals", "groups", "operations", "resources", "predicates"}

Elements(s) == {s[n] : n \in 1..Len(s)}
IsSequence(s) == s \in Seq(Elements(s))

ASSUME AfcasAssumption ==
  /\ Servers \subseteq SUBSET {"principals", "operations", "resources"}
  /\ \A d \in Documents : \A section \in DOMAIN d : IsSequence(d[section])
  /\ \A r \in Requests : IsSequence(r)

VARIABLES
  copied,   \* the vectors that this build copies after parseInitData has run
  accepts,  \* the kinds of which this server accepts a second post
  server,   \* what has been posted to the server and not deleted since
  deleted,  \* history: predicates that an administrator has deleted there
  phase,    \* each proxy: "down", "migrate", "ready" or "ask"
  doc,      \* each proxy: the items its constructor has set out to post
  todo,     \* each proxy: those still to post, or the predicates still to ask
  answer,   \* each proxy: AUTHORIZATION_AUTHORIZED_KEY in its last request
  asked,    \* history: the predicates of that request
  granted   \* history: those the server has had at some moment of it

vars == <<copied, accepts, server, deleted, phase, doc, todo, answer, asked, granted>>

Item(section, x) == [section |-> section, id |-> x]
Items(section, s) == [n \in 1..Len(s) |-> Item(section, s[n])]

Init ==
  /\ copied \in SUBSET {"resources", "operations", "predicates"}
  /\ accepts \in Servers /\ server = {} /\ deleted = {}
  /\ phase = [x \in Proxies |-> "down"]
  /\ doc = [x \in Proxies |-> <<>>] /\ todo = [x \in Proxies |-> <<>>]
  /\ answer = [x \in Proxies |-> "unset"]
  /\ asked = [x \in Proxies |-> {}] /\ granted = [x \in Proxies |-> {}]

(* What the server has of the predicates of a request is noted at every step. *)
Witness ==
  granted' = [x \in Proxies |->
    {p \in asked'[x] : p \in granted[x] \/ Item("predicates", p) \in server'}]

-----------------------------------------------------------------------------
(* parseInitData throws when a section is missing.                            *)
Parses(d) == Sections \subseteq DOMAIN d

(* runMigration, on vectors that are arguments of AfcasClient: the order in   *)
(* which they and the call of parseInitData are evaluated is up to the build, *)
(* and a vector copied before that call is empty.  The groups are not posted. *)
Vector(d, section) ==
  IF section = "principals" \/ section \in copied
  THEN Items(section, d[section]) ELSE <<>>

MigrationMutantPredicatesFirst(d) ==
  Vector(d, "principals") \o Vector(d, "predicates")
    \o Vector(d, "resources") \o Vector(d, "operations")

Migration(d) ==
  Vector(d, "principals") \o Vector(d, "resources")
    \o Vector(d, "operations") \o Vector(d, "predicates")

Construct(x, d) ==
  /\ phase[x] = "down" /\ Parses(d)
  /\ phase' = [phase EXCEPT ![x] = "migrate"]
  /\ doc' = [doc EXCEPT ![x] = Migration(d)] /\ todo' = [todo EXCEPT ![x] = Migration(d)]
  /\ answer' = [answer EXCEPT ![x] = "unset"] /\ asked' = [asked EXCEPT ![x] = {}]
  /\ UNCHANGED <<copied, accepts, server, deleted>> /\ Witness

(* The exception leaves the constructor, and there is no strategy.            *)
Fails(x) ==
  /\ phase' = [phase EXCEPT ![x] = "down"]
  /\ todo' = [todo EXCEPT ![x] = <<>>] /\ doc' = [doc EXCEPT ![x] = <<>>]

Posts(x, section) ==
  phase[x] = "migrate" /\ todo[x] # <<>> /\ Head(todo[x]).section = section

(* addPrincipal, addResource and addOperation accept status 200 only.         *)
AddEntity(x, section) ==
  /\ Posts(x, section)
  /\ IF Head(todo[x]) \in server /\ section \notin accepts
     THEN Fails(x) /\ UNCHANGED server
     ELSE /\ server' = server \union {Head(todo[x])}
          /\ todo' = [todo EXCEPT ![x] = Tail(@)] /\ UNCHANGED <<phase, doc>>
  /\ UNCHANGED <<copied, accepts, deleted, answer, asked>> /\ Witness

AddPrincipal(x) == AddEntity(x, "principals")
AddResource(x) == AddEntity(x, "resources")
AddOperation(x) == AddEntity(x, "operations")

(* addResourceAccessPredicate takes 500 "already exists" for a success.       *)
AddResourceAccessPredicate(x) ==
  /\ Posts(x, "predicates")
  /\ server' = server \union {Head(todo[x])}
  /\ todo' = [todo EXCEPT ![x] = Tail(@)]
  /\ UNCHANGED <<copied, accepts, deleted, phase, doc, answer, asked>> /\ Witness

(* sendRequest with no answer, before or after the server has acted: there is *)
(* no status_code in the context and any_cast throws.                         *)
LoseReplyMutantGoesOn(x) ==
  /\ phase[x] = "migrate" /\ todo[x] # <<>>
  /\ server' \in {server, server \union {Head(todo[x])}}
  /\ todo' = [todo EXCEPT ![x] = Tail(@)]
  /\ UNCHANGED <<copied, accepts, deleted, phase, doc, answer, asked>> /\ Witness

LoseReply(x) ==
  /\ phase[x] = "migrate" /\ todo[x] # <<>>
  /\ server' \in {server, server \union {Head(todo[x])}}
  /\ Fails(x)
  /\ UNCHANGED <<copied, accepts, deleted, answer, asked>> /\ Witness

Migrated(x) ==
  /\ phase[x] = "migrate" /\ todo[x] = <<>>
  /\ phase' = [phase EXCEPT ![x] = "ready"]
  /\ UNCHANGED <<copied, accepts, server, deleted, doc, todo, answer, asked>> /\ Witness

-----------------------------------------------------------------------------
(* parseAfcasAuthorizationData: the predicates of a request, of its user.     *)
BeginRequest(x, r) ==
  /\ phase[x] = "ready"
  /\ phase' = [phase EXCEPT ![x] = "ask"] /\ todo' = [todo EXCEPT ![x] = r]
  /\ answer' = [answer EXCEPT ![x] = "unset"]
  /\ asked' = [asked EXCEPT ![x] = Elements(r)]
  /\ granted' = [granted EXCEPT ![x] = {p \in Elements(r) : Item("predicates", p) \in server}]
  /\ UNCHANGED <<copied, accepts, server, deleted, doc>>

Answer(x, a) ==
  /\ phase' = [phase EXCEPT ![x] = "ready"] /\ todo' = [todo EXCEPT ![x] = <<>>]
  /\ answer' = [answer EXCEPT ![x] = a]

(* One turn of the loop of isAuthorized, and AfcasClient::isAuthorized in it. *)
AskMutantAny(x) ==
  /\ phase[x] = "ask" /\ todo[x] # <<>>
  /\ \/ /\ Item("predicates", Head(todo[x])) \in server
        /\ Answer(x, "yes")
     \/ /\ Item("predicates", Head(todo[x])) \notin server
        /\ todo' = [todo EXCEPT ![x] = Tail(@)] /\ UNCHANGED <<phase, answer>>
  /\ UNCHANGED <<copied, accepts, server, deleted, doc, asked>> /\ Witness

Ask(x) ==
  /\ phase[x] = "ask" /\ todo[x] # <<>>
  /\ \/ /\ Item("predicates", Head(todo[x])) \in server
        /\ todo' = [todo EXCEPT ![x] = Tail(@)] /\ UNCHANGED <<phase, answer>>
     \/ /\ Item("predicates", Head(todo[x])) \notin server
        /\ Answer(x, "no")
     \/ Answer(x, "unset")     \* status not 200, no JSON or no answer: it throws
  /\ UNCHANGED <<copied, accepts, server, deleted, doc, asked>> /\ Witness

(* The loop ends with no predicate refused.                                   *)
Authorize(x) ==
  /\ phase[x] = "ask" /\ todo[x] = <<>>
  /\ Answer(x, "yes")
  /\ UNCHANGED <<copied, accepts, server, deleted, doc, asked>> /\ Witness

-----------------------------------------------------------------------------
(* An administrator deletes a predicate on the server.                        *)
Delete(item) ==
  /\ item.section = "predicates"
  /\ server' = server \ {item} /\ deleted' = deleted \union {item}
  /\ UNCHANGED <<copied, accepts, phase, doc, todo, answer, asked>> /\ Witness

Crash(x) ==
  /\ phase[x] # "down"
  /\ Fails(x)
  /\ answer' = [answer EXCEPT ![x] = "unset"] /\ asked' = [asked EXCEPT ![x] = {}]
  /\ UNCHANGED <<copied, accepts, server, deleted>> /\ Witness

Next ==
  \/ \E x \in Proxies, d \in Documents : Construct(x, d)
  \/ \E x \in Proxies :
       \/ AddPrincipal(x) \/ AddResource(x) \/ AddOperation(x)
       \/ AddResourceAccessPredicate(x) \/ LoseReply(x) \/ Migrated(x)
       \/ Ask(x) \/ Authorize(x) \/ Crash(x)
  \/ \E x \in Proxies, r \in Requests : BeginRequest(x, r)
  \/ \E item \in server : Delete(item)

Spec == Init /\ [][Next]_vars
-----------------------------------------------------------------------------
(* What a predicate names; the builds that copy it no later than the rest.    *)
Parts(p) ==
  {Item("principals", p.principal), Item("operations", p.operation),
   Item("resources", p.resource)}

InOrder == "predicates" \in copied => {"operations", "resources"} \subseteq copied

(* Although posts get lost, proxies die half-way and several migrate at once, *)
(* a predicate is on the server only with its principal, its operation and    *)
(* its resource: because runMigration posts those first, and if the build     *)
(* does not copy predicates after the parse and the others before it.         *)
NoDanglingPredicate ==
  InOrder =>
    \A item \in server : item.section = "predicates" => Parts(item.id) \subseteq server

(* A strategy that has been constructed has everything it set out to post on  *)
(* the server, but for what an administrator has deleted.                     *)
ReadyMeansMigrated ==
  \A x \in Proxies :
    phase[x] \in {"ready", "ask"} => Elements(doc[x]) \subseteq server \union deleted

(* A request is authorized only if the server has had each of its predicates  *)
(* at some moment of the request, however many predicates it has and whatever *)
(* is deleted or posted meanwhile.                                            *)
AuthorizedMeansGranted ==
  \A x \in Proxies : answer[x] = "yes" => asked[x] \subseteq granted[x]
=============================================================================
