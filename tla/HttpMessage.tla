------------------------------ MODULE HttpMessage ------------------------------
(* src/http/http_message.cpp and .h: a message is built or changed, written   *)
(* to a string by to_string, and parsed again at the other end of a hop,      *)
(* which may send it on.  A text is a sequence of the characters that steer   *)
(* the parsers and of words, in which nothing is split.                       *)
EXTENDS Naturals, Sequences, FiniteSets, SequencesExt, FiniteSetsExt

CONSTANTS
  Words,      \* words of a text, method and status names among them
  Methods,    \* those that string_to_method knows
  Starts,     \* method, space and path of a request, or the code of a response
  Reason,     \* Reason[w]: the text to_string gives a status code
  Keys, Values, Contents,  \* texts that callers set
  Rank,       \* the order of words and characters in a std::map
  Number,     \* Number[n]: the word std::to_string makes of n
  MaxHops     \* bound on the hops

CR == "\r"
LF == "\n"
SP == " "
Colon == ":"
Version == "HTTP/1.1"
ContentLength == "Content-Length"

ASSUME HttpAssumption ==
  /\ {CR, LF, SP, Colon} \intersect Words = {} /\ {Version, ContentLength} \subseteq Words
  /\ Methods \subseteq Words /\ MaxHops \in Nat
  /\ \A c, d \in Words \union {CR, LF, SP, Colon} :
       Rank[c] \in Nat /\ (Rank[c] = Rank[d] => c = d)

VARIABLES
  kind,      \* "request" or "response"
  message,   \* the object: start, headers and content
  sent,      \* the object that to_string was last given, or the one being built
  relayed,   \* that object had come from a parser and nobody had changed it
  wire,      \* what to_string has made of it
  place,     \* "built", "parsed", "wire" or "thrown"
  hops

messageVars == <<kind, message, sent, relayed, wire, place, hops>>

Chars == Words \union {CR, LF, SP, Colon}
NewLine == <<CR, LF>>

-----------------------------------------------------------------------------
(* SetHeader and SetContent: the latter sets the header of the length too.    *)
Put(h, k, v) == [x \in DOMAIN h \union {k} |-> IF x = k THEN v ELSE h[x]]

WithContent(m, c) ==
  [m EXCEPT !.content = c, !.headers = Put(@, <<ContentLength>>, <<Number[Len(c)]>>)]

NoHeaders == [k \in {} |-> <<>>]
NewMessage(start) == [start |-> start, headers |-> NoHeaders, content |-> <<>>]

(* A set in ascending order.                                                  *)
Sorted(S, Under(_, _)) ==
  [k \in 1..Cardinality(S) |-> CHOOSE x \in S : Cardinality({y \in S : Under(y, x)}) = k - 1]

Less(m, n) == m < n

(* The order of std::map: the first character that differs decides.           *)
Before(s, t) ==
  \E n \in 1..Len(t) :
    /\ n <= Len(s) + 1 /\ \A i \in 1..(n - 1) : s[i] = t[i]
    /\ n <= Len(s) => Rank[s[n]] < Rank[t[n]]

(* to_string of a message whose first line is "first".                        *)
HeaderLines(h) ==
  LET keys == Sorted(DOMAIN h, Before)
  IN FlattenSeq([n \in 1..Len(keys) |-> keys[n] \o <<Colon, SP>> \o h[keys[n]] \o NewLine])

Written(first, m, body) == first \o NewLine \o HeaderLines(m.headers) \o NewLine \o body

RequestToString(m) == Written(m.start \o <<SP, Version>>, m, m.content)

ResponseToString(m, sendContent) ==
  Written(<<Version, SP>> \o m.start \o <<SP>> \o Reason[Head(m.start)], m,
          IF sendContent THEN m.content ELSE <<>>)

-----------------------------------------------------------------------------
(* find from a position, 0 for npos; find_first_not_of and find_last_not_of.  *)
Find(s, pattern, from) ==
  LET at == {n \in from..(Len(s) + 1 - Len(pattern)) :
               SubSeq(s, n, n + Len(pattern) - 1) = pattern}
  IN IF at = {} THEN 0 ELSE Min(at)

StripLeft(s, c) == SubSeq(s, Min({n \in 1..Len(s) : s[n] # c} \union {Len(s) + 1}), Len(s))
StripRight(s, c) == SubSeq(s, 1, Max({n \in 1..Len(s) : s[n] # c} \union {0}))

(* The lines that calls of getline read until they fail: a line feed begins a *)
(* line, and one that begins at the end of the text is not read.              *)
Grow(lines, c) ==
  IF c = LF THEN Append(lines, <<>>) ELSE [lines EXCEPT ![Len(lines)] = Append(@, c)]

Parts(s) ==
  LET parts[n \in 0..Len(s)] == IF n = 0 THEN <<<<>>>> ELSE Grow(parts[n - 1], s[n])
  IN parts[Len(s)]

LinesOf(s) == IF Last(Parts(s)) = <<>> THEN Front(Parts(s)) ELSE Parts(s)

(* What operator>> reads one after the other.                                 *)
WordsOf(line) ==
  LET at == Sorted({n \in 1..Len(line) : line[n] \notin {SP, CR, LF}}, Less)
  IN [k \in 1..Len(at) |-> line[at[k]]]

(* trim takes each kind of character off once, in this order.                 *)
TrimMutantKeepsCR(s) == StripLeft(StripRight(StripRight(s, SP), LF), SP)
TrimMutantRightOnly(s) == StripRight(StripRight(StripRight(s, SP), LF), CR)

Trim(s) ==
  StripLeft(StripLeft(StripRight(StripRight(StripRight(s, SP), LF), CR), SP), LF)

(* One turn of the header loop of string_to_request.  getline leaves the      *)
(* value of the line before when there is no colon.                           *)
ReadHeader(acc, line) ==
  LET colon == Find(line, <<Colon>>, 1)
      key == Trim(IF colon = 0 THEN line ELSE SubSeq(line, 1, colon - 1))
      value == Trim(IF colon = 0 THEN acc.value ELSE SubSeq(line, colon + 1, Len(line)))
  IN [headers |-> Put(acc.headers, key, value), value |-> value]

(* string_to_request, as a set: empty when it throws.                         *)
RequestParts(w) ==
  LET first == Find(w, NewLine, 1)
      blank == Find(w, NewLine \o NewLine, first + 2)
  IN [start |-> WordsOf(SubSeq(w, 1, first - 1)), complete |-> first # 0,
      headers |-> IF blank = 0 THEN <<>> ELSE SubSeq(w, first + 2, blank - 1),
      body |-> IF blank = 0 THEN <<>> ELSE SubSeq(w, blank + 4, Len(w))]

Accepted(p) ==
  p.complete /\ Len(p.start) >= 3 /\ p.start[1] \in Methods /\ p.start[3] = Version

ParsedHeaders(p) ==
  LET lines == LinesOf(p.headers)
      read[n \in 0..Len(lines)] ==
        IF n = 0 THEN [headers |-> NoHeaders, value |-> <<>>] ELSE ReadHeader(read[n - 1], lines[n])
  IN read[Len(lines)].headers

StringToRequest(w) ==
  LET p == RequestParts(w) IN
  IF ~Accepted(p) THEN {}
  ELSE {WithContent([NewMessage(<<p.start[1], SP, p.start[2]>>)
                       EXCEPT !.headers = ParsedHeaders(p)], p.body)}

(* string_to_response.  substr throws where a key or a value is all blank.    *)
ResponseHeader(line) ==
  LET colon == Find(line, <<Colon>>, 1)
  IN [key |-> StripLeft(SubSeq(line, 1, colon - 1), SP),
      value |-> StripLeft(SubSeq(line, colon + 1, Len(line)), SP)]

StringToResponseMutantStopsAtBlank(w) ==
  LET lines == LinesOf(w)
      blank == Min({n \in 2..Len(lines) : lines[n] \in {<<>>, <<CR>>}})
      rest == SubSeq(lines, blank + 1, Len(lines))
      stop == Min({n \in 1..Len(rest) : rest[n] = <<>>} \union {Len(rest) + 1})
      hs == {ResponseHeader(lines[n]) : n \in 2..(blank - 1)}
      body == FlattenSeq([n \in 1..(stop - 1) |-> rest[n] \o <<LF>>])
  IN {WithContent([NewMessage(<<WordsOf(Head(lines))[2]>>) EXCEPT
        !.headers = [k \in {h.key : h \in hs} |-> (CHOOSE h \in hs : h.key = k).value]], body)}

StringToResponse(w) ==
  LET lines == LinesOf(w)
      blank == Min({n \in 2..Len(lines) : lines[n] \in {<<>>, <<CR>>}} \union {Len(lines) + 1})
      read == [n \in 1..(blank - 2) |-> lines[n + 1]]
      hs == [n \in DOMAIN read |-> ResponseHeader(read[n])]
      used == {n \in DOMAIN read : Find(read[n], <<Colon>>, 1) # 0}
      headers == [k \in {hs[n].key : n \in used} |->
                    hs[Max({n \in used : hs[n].key = k})].value]
      body == FlattenSeq([n \in 1..(Len(lines) - blank) |-> lines[blank + n] \o <<LF>>])
  IN IF \E n \in used : hs[n].key = <<>> \/ hs[n].value = <<>> THEN {}
     ELSE {WithContent([NewMessage(<<WordsOf(Head(lines))[2]>>)
                          EXCEPT !.headers = headers], body)}

-----------------------------------------------------------------------------
MessageInit ==
  /\ kind \in {"request", "response"}
  /\ \E start \in Starts[kind] : message = NewMessage(start)
  /\ sent = message /\ relayed = FALSE /\ wire = <<>> /\ place = "built" /\ hops = 0

Held == place \in {"built", "parsed"} /\ hops < MaxHops

Change(m) ==
  /\ Held /\ m # message
  /\ message' = m /\ sent' = m /\ relayed' = FALSE /\ place' = "built"
  /\ UNCHANGED <<kind, wire, hops>>

SetHeader(k, v) == Change([message EXCEPT !.headers = Put(@, k, v)])
SetContent(c) == Change(WithContent(message, c))

(* A header leaves by RemoveHeader, all of them by ClearHeader.               *)
RemoveHeaders(ks) ==
  Change([message EXCEPT !.headers = [k \in DOMAIN @ \ ks |-> @[k]]])

(* to_string, the body of a response being optional.                          *)
Send(sendContent) ==
  /\ Held
  /\ wire' = IF kind = "request" THEN RequestToString(message)
             ELSE ResponseToString(message, sendContent)
  /\ sent' = IF sendContent THEN message ELSE [message EXCEPT !.content = <<>>]
  /\ relayed' = (place = "parsed" /\ sent' = message)
  /\ place' = "wire" /\ hops' = hops + 1
  /\ UNCHANGED <<kind, message>>

Receive ==
  /\ place = "wire"
  /\ LET parsed == IF kind = "request" THEN StringToRequest(wire) ELSE StringToResponse(wire)
     IN IF parsed = {} THEN place' = "thrown" /\ UNCHANGED message
        ELSE message' \in parsed /\ place' = "parsed"
  /\ wire' = <<>>
  /\ UNCHANGED <<kind, sent, relayed, hops>>

MessageNext ==
  \/ \E k \in Keys, v \in Values : SetHeader(k, v)
  \/ \E c \in Contents : SetContent(c)
  \/ \E k \in Keys : RemoveHeaders({k})
  \/ RemoveHeaders(DOMAIN message.headers)
  \/ Send(TRUE) \/ (kind = "response" /\ Send(FALSE))
  \/ Receive

MessageSpec == MessageInit /\ [][MessageNext]_messageVars
-----------------------------------------------------------------------------
Arrived(k) == place = "parsed" /\ kind = k
Others(m) == DOMAIN m.headers \ {<<ContentLength>>}

(* A request that was sent with at least one header arrives as it was: its    *)
(* body, and each value that has no blank at its ends.  Bodies have an empty  *)
(* line at their beginning only: without headers, string_to_request reads     *)
(* what is before such a line as headers, which may then be no keys at all.   *)
RequestArrives ==
  (Arrived("request") /\ sent.headers # NoHeaders) =>
    /\ message.start = sent.start /\ message.content = sent.content
    /\ Others(message) = Others(sent)
    /\ \A k \in Others(sent) :
         (Trim(sent.headers[k]) = sent.headers[k]) => message.headers[k] = sent.headers[k]

(* A request that has been parsed once is passed on unchanged by every hop,   *)
(* even if trim or a missing header has changed it at the first, with bodies  *)
(* as above.                                                                  *)
RelayIsFaithful == (Arrived("request") /\ relayed) => message = sent

(* A response loses nothing but leading blanks of values: each value comes    *)
(* with carriage returns behind it, the body with at most a line feed more.   *)
ResponseLosesNothing ==
  Arrived("response") =>
    /\ message.start = sent.start /\ Others(message) = Others(sent)
    /\ \A k \in Others(sent) : message.headers[k] = StripLeft(sent.headers[k], SP) \o <<CR>>
    /\ message.content \in {sent.content, sent.content \o <<LF>>}
=============================================================================
