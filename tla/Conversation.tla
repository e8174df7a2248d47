---------------------------- MODULE Conversation ----------------------------
(***************************************************************************)
(* The conversations of address and port pairs, epan/conversation.c.  A     *)
(* conversation is found from every frame between its ends since the frame  *)
(* that set it up, in the first pass over a capture and in later ones that  *)
(* visit the frames in any order.  Its second address or port may be a      *)
(* wildcard, which for a connection is replaced when a frame matches it, or *)
(* which is the template of further conversations.                          *)
(*                                                                          *)
(* The conversations of one key are a chain in the order of their setup     *)
(* frames, entered in the hash table of their kind.  A table entry holds a  *)
(* pointer to the key of a conversation; that key is changed in place when  *)
(* a wildcard is replaced.  Hashes do not collide.                          *)
(***************************************************************************)
EXTENDS Integers, Sequences, FiniteSets

CONSTANTS
    Ctypes,          \* types of the conversations: "TCP" for any connection, "UDP"
    Packets,         \* the ends of the packets, see PacketType
    SetUps,          \* conversations that dissectors set up: their ends and options
    Searches,        \* options that dissectors search with
    FrameBound,      \* bound on the frames
    ConvBound,       \* bound on the conversations
    SharedWildcards  \* is a wildcard replaced while other conversations have its key?

NULL == 0
Any == "*"           \* a wildcard, and a part that a key does not have

PacketType(p) == DOMAIN p = {"addr_a", "port_a", "addr_b", "port_b"}
SetUpOptions == {"NO_ADDR2", "NO_PORT2", "NO_PORT2_FORCE", "NO_PORTS", "CONVERSATION_TEMPLATE"}
SearchOptions == {"NO_ADDR_B", "NO_PORT_B", "NO_PORT_X", "NO_GREEDY", "EXACT_EXCLUDED"}

\* (A packet has both ends: what stands for a missing part is not one.)
ASSUME PacketsAssumption ==
    /\ \A p \in Packets : PacketType(p) /\ Any \notin {p.addr_a, p.port_a, p.addr_b, p.port_b}
    /\ \A u \in SetUps : PacketType(u.ends) /\ u.options \subseteq SetUpOptions
    /\ Searches \subseteq SUBSET SearchOptions
    /\ Ctypes \subseteq {"TCP", "UDP"}
\* conversation_set_addr2 does not take NO_PORT2_FORCE for a wildcard port and would
\* look for such a conversation in another table.
ASSUME OptionsAssumption ==
    \A u \in SetUps : /\ ~({"NO_ADDR2", "NO_PORT2_FORCE"} \subseteq u.options)
                      /\ ~({"NO_PORT2", "NO_PORT2_FORCE"} \subseteq u.options)
                      /\ "NO_PORTS" \in u.options => u.options = {"NO_PORTS"}
ASSUME BoundsAssumption ==
    FrameBound \in Nat /\ ConvBound \in Nat /\ SharedWildcards \in BOOLEAN

VARIABLES
    ctype,     \* the type of the conversations
    st,        \* convs and tables, see InitTables
    packets,   \* the packets of the frames visited so far
    found,     \* for each of them, its conversation in the first pass
    filled     \* was a wildcard replaced, or a template used?

vars == <<ctype, st, packets, found, filled>>

Kinds == {"exact_addr_port", "no_addr2", "no_port2", "no_addr2_or_port2", "exact_addr"}

\* convs[i] has conv_index i - 1.  An entry of a table has the hash of a key, the
\* conversation whose key it points to, and the head of the chain.
InitTables == [convs |-> << >>, tables |-> [k \in Kinds |-> {}]]

Init ==
    /\ ctype \in Ctypes
    /\ st = InitTables
    /\ packets = << >>
    /\ found = << >>
    /\ filled = FALSE

Key(addr1, port1, addr2, port2) ==
    [addr1 |-> addr1, port1 |-> port1, addr2 |-> addr2, port2 |-> port2]

-----------------------------------------------------------------------------
(***************************************************************************)
(* Chains                                                                   *)
(***************************************************************************)

\* The conversations from one on along the next pointers, up to the first NULL.
From(s, c) ==
    LET nth[n \in Nat] == IF n = 0 THEN c
                          ELSE LET before == nth[n-1]
                               IN  IF before = NULL THEN NULL ELSE s.convs[before].next
        len == Cardinality({n \in 1 .. Len(s.convs) : nth[n-1] # NULL})
    IN  [n \in 1 .. len |-> nth[n-1]]

\* The entry that a key leads to, if any: its hash and the key in memory match.
Entries(s, kind, key) == {e \in s.tables[kind] : e.hash = key /\ s.convs[e.owner].key = key}
HeadOf(s, kind, key) ==
    LET heads == {e.head : e \in Entries(s, kind, key)} \cup {NULL}
    IN  CHOOSE h \in heads : \A other \in heads : other <= h

\* wmem_map_insert for a key that is in the table: the value is replaced, and the
\* pointer to the key stays.
NewHead(s, kind, key, c) ==
    [s EXCEPT !.tables[kind] = {IF e \in Entries(s, kind, key) THEN [e EXCEPT !.head = c] ELSE e : e \in @}]

SetupFrame(s, c) == s.convs[c].setup_frame

\* Where a conversation belongs in a chain: before the first one that is not set up
\* earlier.
PlaceIn(s, c, chain) ==
    CHOOSE j \in DOMAIN chain :
       /\ SetupFrame(s, c) <= SetupFrame(s, chain[j])
       /\ \A k \in 1 .. j - 1 : SetupFrame(s, c) > SetupFrame(s, chain[k])

\* Mutant of InsertAtPlace: the new head does not take the end of the chain over.
InsertWithoutLast(s, kind, c, chain, i) ==
    IF i = 1
      THEN NewHead([s EXCEPT !.convs[c].next = chain[1], !.convs[c].last = chain[1],
                             !.convs[chain[1]].last = NULL], kind, s.convs[c].key, c)
      ELSE [s EXCEPT !.convs[c].next = chain[i], !.convs[c].last = NULL,
                     !.convs[chain[i-1]].next = c]

\* Into the chain, before its i-th conversation.
InsertAtPlace(s, kind, c, chain, i) ==
    IF i = 1
      THEN NewHead([s EXCEPT !.convs[c].next = chain[1], !.convs[c].last = s.convs[chain[1]].last,
                             !.convs[chain[1]].last = NULL], kind, s.convs[c].key, c)
      ELSE [s EXCEPT !.convs[c].next = chain[i], !.convs[c].last = NULL,
                     !.convs[chain[i-1]].next = c]

\* Into the chain that has this head, or as a chain of its own.
InsertBy(s, kind, c, head, chain) ==
    IF head = NULL
      THEN [s EXCEPT !.convs[c].next = NULL, !.convs[c].last = c,
                     !.tables[kind] = @ \cup {[hash |-> s.convs[c].key, owner |-> c, head |-> c]}]
    ELSE IF SetupFrame(s, c) >= SetupFrame(s, s.convs[head].last)
      THEN [s EXCEPT !.convs[c].next = NULL, !.convs[c].last = NULL,
                     !.convs[s.convs[head].last].next = c, !.convs[head].last = c]
    ELSE InsertAtPlace(s, kind, c, chain, PlaceIn(s, c, chain))

conversation_insert_into_hashtable(s, kind, c) ==
    LET head == HeadOf(s, kind, s.convs[c].key)
    IN  InsertBy(s, kind, c, head, From(s, head))

\* Out of the middle or the end of a chain, if it is there.
Unlink(s, c, chain) ==
    LET head == chain[1]
        next == s.convs[c].next
        prev == chain[(CHOOSE i \in DOMAIN chain : chain[i] = c) - 1]
    IN  IF c \notin {chain[i] : i \in DOMAIN chain} THEN s
        ELSE [s EXCEPT !.convs[prev].next = next,
                       !.convs[head].last = IF next = NULL THEN prev ELSE @,
                       !.convs[head].latest_found = IF @ = c THEN prev ELSE @]

conversation_remove_from_hashtable(s, kind, c) ==
    LET key   == s.convs[c].key
        next  == s.convs[c].next
        chain == From(s, HeadOf(s, kind, key))
    IN  IF chain = <<c>>
          THEN [s EXCEPT !.tables[kind] = @ \ Entries(s, kind, key)]
        ELSE IF chain # << >> /\ chain[1] = c
          THEN NewHead([s EXCEPT !.convs[next].last = s.convs[c].last,
                                 !.convs[next].latest_found =
                                    IF s.convs[c].latest_found = c THEN NULL
                                    ELSE s.convs[c].latest_found], kind, key, next)
        ELSE Unlink(s, c, chain)

-----------------------------------------------------------------------------
(***************************************************************************)
(* Setting up                                                               *)
(***************************************************************************)

KindOf(options) ==
    LET no_port2 == options \cap {"NO_PORT2", "NO_PORT2_FORCE"} # {}
    IN  IF "NO_ADDR2" \in options THEN IF no_port2 THEN "no_addr2_or_port2" ELSE "no_addr2"
        ELSE IF no_port2 THEN "no_port2"
        ELSE IF "NO_PORTS" \in options THEN "exact_addr" ELSE "exact_addr_port"

KeyOf(ends, options) ==
    LET kind == KindOf(options)
    IN  Key(ends.addr_a, IF kind = "exact_addr" THEN Any ELSE ends.port_a,
            IF kind \in {"no_addr2", "no_addr2_or_port2"} THEN Any ELSE ends.addr_b,
            IF kind \in {"exact_addr_port", "no_addr2"} THEN ends.port_b ELSE Any)

\* The new conversation is the last of convs.
conversation_new(s, setup_frame, ends, options, template) ==
    conversation_insert_into_hashtable(
       [s EXCEPT !.convs = Append(@, [setup_frame |-> setup_frame, options |-> options,
                                      key |-> KeyOf(ends, options), template |-> template,
                                      next |-> NULL, last |-> NULL, latest_found |-> NULL])],
       KindOf(options), Len(s.convs) + 1)

-----------------------------------------------------------------------------
(***************************************************************************)
(* Wildcards                                                                *)
(***************************************************************************)

\* Mutant of Moved: the conversation goes back into the table it was taken from.
MovedBack(s, c, key, options) ==
    LET kind == KindOf(s.convs[c].options)
        out  == conversation_remove_from_hashtable(s, kind, c)
    IN  conversation_insert_into_hashtable(
           [out EXCEPT !.convs[c].key = key, !.convs[c].options = options], kind, c)

\* Out of one table, the key changed in place, into another.
Moved(s, c, key, options) ==
    LET out == conversation_remove_from_hashtable(s, KindOf(s.convs[c].options), c)
    IN  conversation_insert_into_hashtable(
           [out EXCEPT !.convs[c].key = key, !.convs[c].options = options], KindOf(options), c)

\* (Any stands for no call.)
conversation_set_port2(s, c, port) ==
    LET conv == s.convs[c]
    IN  IF port = Any \/ "NO_PORT2" \notin conv.options THEN s
        ELSE Moved(s, c, [conv.key EXCEPT !.port2 = port], conv.options \ {"NO_PORT2"})

conversation_set_addr2(s, c, addr) ==
    LET conv == s.convs[c]
    IN  IF addr = Any \/ "NO_ADDR2" \notin conv.options THEN s
        ELSE Moved(s, c, [conv.key EXCEPT !.addr2 = addr], conv.options \ {"NO_ADDR2"})

\* Mutant of conversation_create_from_template: the template itself is completed.
CompleteTemplate(s, c, addr2, port2) ==
    LET bare == [s EXCEPT !.convs[c].options = @ \ {"CONVERSATION_TEMPLATE"}]
    IN  [s |-> conversation_set_port2(conversation_set_addr2(bare, c, addr2), c, port2),
         conv |-> c]

\* A conversation with the ends of the template and what it does not have; the
\* template itself if it has no wildcard that is replaced.
conversation_create_from_template(s, c, addr2, port2) ==
    LET conv == s.convs[c]
        key  == conv.key
        ends == [addr_a |-> key.addr1, port_a |-> key.port1,
                 addr_b |-> IF key.addr2 = Any THEN addr2 ELSE key.addr2,
                 port_b |-> IF key.port2 = Any THEN port2 ELSE key.port2]
    IN  IF conv.options \cap {"NO_ADDR2", "NO_PORT2"} = {} THEN [s |-> s, conv |-> c]
        ELSE [s |-> conversation_new(s, conv.setup_frame, ends,
                                     conv.options \ {"CONVERSATION_TEMPLATE", "NO_ADDR2", "NO_PORT2"}, c),
              conv |-> Len(s.convs) + 1]

-----------------------------------------------------------------------------
(***************************************************************************)
(* Finding                                                                  *)
(***************************************************************************)

Early(s, c, frame_num) == c # NULL /\ SetupFrame(s, c) <= frame_num

\* The first of the latest conversations along a walk, up to the frame.
LatestOn(s, walk, frame_num) ==
    LET upto(i) == \A j \in 1 .. i : Early(s, walk[j], frame_num)
    IN  walk[CHOOSE i \in DOMAIN walk :
                /\ upto(i)
                /\ \A j \in DOMAIN walk : upto(j) =>
                      \/ SetupFrame(s, walk[j]) < SetupFrame(s, walk[i])
                      \/ SetupFrame(s, walk[j]) = SetupFrame(s, walk[i]) /\ i <= j]

\* Mutant of Lookup: the conversation found last is taken as it is.
LookupLatest(s, head, frame_num) ==
    IF ~Early(s, head, frame_num) THEN NULL
    ELSE IF Early(s, s.convs[head].last, frame_num) THEN s.convs[head].last
    ELSE IF Early(s, s.convs[head].latest_found, frame_num) THEN s.convs[head].latest_found
    ELSE head

\* The latest conversation of a chain that was set up by a frame: the last one, or
\* from the one that was found last on, or from the head on.
Lookup(s, head, frame_num) ==
    IF ~Early(s, head, frame_num) THEN NULL
    ELSE IF Early(s, s.convs[head].last, frame_num) THEN s.convs[head].last
    ELSE LatestOn(s, From(s, IF Early(s, s.convs[head].latest_found, frame_num)
                               THEN s.convs[head].latest_found ELSE head), frame_num)

\* The head remembers a match that is not the last of its chain.
Remember(s, head, match, frame_num) ==
    [conv |-> match,
     s    |-> IF match = NULL \/ SetupFrame(s, s.convs[head].last) <= frame_num THEN s
              ELSE [s EXCEPT !.convs[head].latest_found = match]]

LookupAt(s, head, frame_num) == Remember(s, head, Lookup(s, head, frame_num), frame_num)

conversation_lookup_hashtable(s, kind, key, frame_num) ==
    LookupAt(s, HeadOf(s, kind, key), frame_num)

\* A lookup after another one, of which the younger match counts.
Younger(there, back) ==
    [s |-> back.s, conv |-> IF back.conv > there.conv THEN back.conv ELSE there.conv]

LookupBack(there, frame_num, p) ==
    Younger(there, conversation_lookup_hashtable(there.s, "exact_addr_port",
                      Key(p.addr_b, p.port_b, p.addr_a, p.port_a), frame_num))

LookupThere(s, frame_num, p) ==
    conversation_lookup_hashtable(s, "exact_addr_port",
       Key(p.addr_a, p.port_a, p.addr_b, p.port_b), frame_num)

\* Mutant of FindExact: the way back is searched without regard to the frame.
FindExactNewest(s, frame_num, p) == LookupBack(LookupThere(s, frame_num, p), FrameBound, p)

\* Mutant of FindExact: one direction only.
FindExactOneWay(s, frame_num, p) == LookupThere(s, frame_num, p)

\* The exact lookup, in both directions: the younger conversation is taken.
FindExact(s, frame_num, p) == LookupBack(LookupThere(s, frame_num, p), frame_num, p)

\* The lookups with wildcards in their order: whether one is made, what the wildcard
\* then stands for, and whether it is replaced.  (Where the ends are those of the
\* conversation the code asks for a conversation without the wildcard, which is not in
\* that table, so that only a template without both is used.)
Try(made, kind, key, addr2, port2, replace) ==
    [made |-> made, kind |-> kind, key |-> key, addr2 |-> addr2, port2 |-> port2, replace |-> replace]

WildcardTries(p, options) ==
    LET ports  == options \cap {"NO_PORT_B", "NO_PORT_X"} = {}
        addrs  == options \cap {"NO_ADDR_B", "NO_PORT_X"} = {}
        either == "NO_PORT_X" \notin options /\ ~(addrs /\ "NO_GREEDY" \in options)
        none   == "NO_PORT_X" \in options
    IN  <<Try(ports, "no_addr2", Key(p.addr_a, p.port_a, Any, p.port_b), p.addr_b, Any, "never"),
          Try(ports /\ "NO_ADDR_B" \notin options,
              "no_addr2", Key(p.addr_b, p.port_b, Any, p.port_a), p.addr_a, Any, "always"),
          Try(addrs, "no_port2", Key(p.addr_a, p.port_a, p.addr_b, Any), Any, p.port_b, "never"),
          Try(addrs /\ "NO_PORT_B" \notin options,
              "no_port2", Key(p.addr_b, p.port_b, p.addr_a, Any), Any, p.port_a, "always"),
          Try(either, "no_addr2_or_port2", Key(p.addr_a, p.port_a, Any, Any),
              p.addr_b, p.port_b, "template"),
          Try(either, "no_addr2_or_port2", Key(p.addr_b, p.port_b, Any, Any),
              p.addr_a, p.port_a, "always"),
          Try(none, "exact_addr", Key(p.addr_a, Any, p.addr_b, Any), Any, Any, "never"),
          Try(none, "exact_addr", Key(p.addr_b, Any, p.addr_a, Any), Any, Any, "never")>>

\* A match of a wildcard lookup.
Matched(s, c, try) ==
    LET template == "CONVERSATION_TEMPLATE" \in s.convs[c].options
        replaced == /\ ctype # "UDP"
                    /\ try.replace = "always" \/ (try.replace = "template" /\ template)
    IN  IF ~replaced THEN [s |-> s, conv |-> c]
        ELSE IF template THEN conversation_create_from_template(s, c, try.addr2, try.port2)
        ELSE [s |-> conversation_set_port2(conversation_set_addr2(s, c, try.addr2), c, try.port2),
              conv |-> c]

MatchedBy(looked, try) == Matched(looked.s, looked.conv, try)

\* The wildcard lookups until one has a match.
FindWildcard(s, frame_num, tries) ==
    LET hits == {i \in DOMAIN tries : /\ tries[i].made
                                      /\ Early(s, HeadOf(s, tries[i].kind, tries[i].key), frame_num)}
        try  == tries[CHOOSE i \in hits : \A j \in hits : i <= j]
    IN  IF hits = {} THEN [s |-> s, conv |-> NULL]
        ELSE MatchedBy(conversation_lookup_hashtable(s, try.kind, try.key, frame_num), try)

\* The exact lookup, if it was made, and the wildcard lookups after it.
FindAfter(first, exact, frame_num, p, options) ==
    IF first.conv # NULL \/ (exact /\ "NO_GREEDY" \in options) THEN first
    ELSE FindWildcard(first.s, frame_num, WildcardTries(p, options))

\* Returns the tables and the conversation, or NULL.
find_conversation(s, frame_num, p, options) ==
    LET exact == options \cap {"NO_ADDR_B", "NO_PORT_B", "NO_PORT_X", "EXACT_EXCLUDED"} = {}
    IN  FindAfter(IF exact THEN FindExact(s, frame_num, p) ELSE [s |-> s, conv |-> NULL],
                  exact, frame_num, p, options)

\* A search that found nothing changed nothing.
OrCreate(r, frame_num, p) ==
    IF r.conv # NULL THEN r
    ELSE [s |-> conversation_new(r.s, frame_num, p, {}, NULL), conv |-> Len(r.s.convs) + 1]

find_or_create_conversation(s, frame_num, p) ==
    OrCreate(find_conversation(s, frame_num, p, {}), frame_num, p)

-----------------------------------------------------------------------------
(***************************************************************************)
(* Dissecting                                                               *)
(***************************************************************************)

frame == Len(packets)

\* Was a wildcard replaced or a template used in going from s to t?
Filled(s, t) ==
    \/ \E c \in DOMAIN s.convs : s.convs[c].key # t.convs[c].key
    \/ Len(t.convs) > Len(s.convs) /\ t.convs[Len(t.convs)].template # NULL

\* Which conversations have the key of one.
SameKey(s, c) == {d \in DOMAIN s.convs : s.convs[d].key = s.convs[c].key}

\* Is a change of the tables within the bounds of the model?
Allowed(t) ==
    /\ Len(t.convs) <= ConvBound
    /\ SharedWildcards \/ \A c \in DOMAIN st.convs :
                             st.convs[c].key # t.convs[c].key => SameKey(st, c) = {c}

Becomes(t) ==
    /\ Allowed(t)
    /\ st' = t
    /\ filled' = (filled \/ Filled(st, t))

\* The next frame of the first pass gets its conversation.
FirstPass ==
    /\ frame < FrameBound
    /\ \E p \in Packets : \E r \in {find_or_create_conversation(st, frame + 1, p)} :
          /\ Becomes(r.s)
          /\ packets' = Append(packets, p)
          /\ found' = Append(found, r.conv)
    /\ UNCHANGED ctype

\* A dissector sets up a conversation for other ends.
SetUp ==
    /\ frame > 0
    /\ \E u \in SetUps : Becomes(conversation_new(st, frame, u.ends, u.options, NULL))
    /\ UNCHANGED <<ctype, packets, found>>

\* A dissector looks for a conversation on its own.
Search ==
    /\ frame > 0
    /\ \E p \in Packets, options \in Searches : 
          Becomes(find_conversation(st, frame, p, options).s)
    /\ UNCHANGED <<ctype, packets, found>>

\* A frame is visited again.
LaterPass ==
    /\ \E f \in 1 .. frame : Becomes(find_or_create_conversation(st, f, packets[f]).s)
    /\ UNCHANGED <<ctype, packets, found>>

Next == FirstPass \/ SetUp \/ Search \/ LaterPass

Spec == Init /\ [][Next]_vars

-----------------------------------------------------------------------------
(***************************************************************************)
(* Properties                                                               *)
(***************************************************************************)

Convs == DOMAIN st.convs

\* Every conversation is in the chain that its key leads to, in the table that its
\* wildcards belong to: replacing a wildcard loses neither the conversation nor the
\* others of its key.
Reachable ==
    \A c \in Convs :
       LET chain == From(st, HeadOf(st, KindOf(st.convs[c].options), st.convs[c].key))
       IN  \E i \in DOMAIN chain : chain[i] = c

\* A chain has conversations of one key only, in the order of their setup frames,
\* and its head knows its end.
ChainsOrdered ==
    \A kind \in Kinds : \A e \in st.tables[kind] :
       LET chain == From(st, e.head)
       IN  /\ \A i \in DOMAIN chain : st.convs[chain[i]].key = st.convs[e.head].key
           /\ \A i \in 1 .. Len(chain) - 1 : SetupFrame(st, chain[i]) <= SetupFrame(st, chain[i+1])
           /\ st.convs[e.head].last = chain[Len(chain)]

\* Whatever was found before, a lookup gives the latest conversation that has the
\* key and was set up by the frame.
LookupExact ==
    \A c \in Convs, f \in 1 .. frame :
       LET key  == st.convs[c].key
           kind == KindOf(st.convs[c].options)
           match == conversation_lookup_hashtable(st, kind, key, f).conv
           early == {d \in SameKey(st, c) : KindOf(st.convs[d].options) = kind /\ SetupFrame(st, d) <= f}
       IN  IF early = {} THEN match = NULL
           ELSE match \in early /\ \A d \in early : SetupFrame(st, d) <= SetupFrame(st, match)

\* In a later pass a frame gets a conversation that is as old as the one it had in
\* the first, or was set up in that very frame, never one of a later frame; as long
\* as no wildcard was or is replaced.  (Of two conversations of one key and setup
\* frame the younger is found while they are the last, and the older afterwards.)
SecondPassSame ==
    \A f \in 1 .. frame :
       LET r == find_conversation(st, f, packets[f], {})
       IN  \/ filled \/ Filled(st, r.s)
           \/ r.conv # NULL /\ SetupFrame(st, r.conv) \in {SetupFrame(st, found[f]), f}

\* A frame that is visited twice gets the same conversation, and the second visit
\* makes none: what a wildcard or a template of the first visit was turned into is
\* found again, in either direction.
VisitsAgree ==
    \A f \in 1 .. frame :
       LET once  == find_or_create_conversation(st, f, packets[f])
           twice == find_or_create_conversation(once.s, f, packets[f])
       IN  Allowed(once.s) => twice.conv = once.conv /\ Len(twice.s.convs) = Len(once.s.convs)

\* "the CONVERSATION_TEMPLATE wildcard conversation remains to match other find
\* requests": no step gives it an end.
TemplatesStay ==
    [][\A c \in Convs : "CONVERSATION_TEMPLATE" \in st.convs[c].options =>
          st'.convs[c].key = st.convs[c].key /\ st'.convs[c].options = st.convs[c].options]_vars
=============================================================================
