------------------------------ MODULE MapSplit ------------------------------
(***************************************************************************)
(* The streaming splitter of a MapResponse (mapreq.c, mapresp_json_t): the *)
(* bytes of the body arrive one by one and only the element being          *)
(* collected is stored.  It replaced a parser that split the whole body    *)
(* with the iterators of jsmn_split.h and must give the same elements for  *)
(* any text, malformed and truncated ones included.                        *)
(*                                                                         *)
(* The state is the splitter; each step feeds it one more character of a   *)
(* text that grows to every text over Chars.  Two of the containers it     *)
(* descends into stand for all: an array of elements (Peers) and an object *)
(* in an object (DERPMap, Regions).  What an element holds is left out.    *)
(***************************************************************************)
EXTENDS Integers, Sequences, SequencesExt

CONSTANTS
    Chars,          \* the characters fed
    Starts,         \* texts fed at the start
    PeersKey,       \* the key of the array
    DerpMapKey,     \* the key of the object
    RegionsKey,     \* the key of the object inside it
    MaxDepth,       \* TL_JSPLIT_MAX_DEPTH
    ElemCap,        \* size of the element buffer
    MaxFed          \* bound: characters fed after the start

VARIABLES
    text,           \* the body so far
    split,          \* mapresp_json_t
    fed

splitVars == <<text, split, fed>>

Quote == "\""
Escape == "\\"
IsWs(c) == c = " "
Opens(c) == c \in {"{", "["}
Closes(c) == c \in {"}", "]"}
Delimits(c) == c = "," \/ Closes(c) \/ IsWs(c)

-----------------------------------------------------------------------------
\* jsmn_split.h, the byte-at-a-time scan of one value.  Its result r is "more",
\* "end" (this was its last byte), "before" (it ended before this byte), "err".

scan_begin(c) ==
    CASE c = Quote -> [r |-> "more", depth |-> 0, mode |-> "str"]
      [] Opens(c) -> [r |-> "more", depth |-> 1, mode |-> "text"]
      [] c = "," \/ Closes(c) -> [r |-> "err", depth |-> 0, mode |-> "scalar"]
      [] OTHER -> [r |-> "more", depth |-> 0, mode |-> "scalar"]

scan_byte(s, c) ==
    CASE s.mode = "scalar" -> [s EXCEPT !.r = IF Delimits(c) THEN "before" ELSE "more"]
      [] s.mode = "esc" -> [s EXCEPT !.mode = "str", !.r = "more"]
      [] s.mode = "str" /\ c = Escape -> [s EXCEPT !.mode = "esc", !.r = "more"]
      [] s.mode = "str" /\ c = Quote /\ s.depth = 0 -> [s EXCEPT !.r = "end"]
      [] s.mode = "str" /\ c = Quote /\ s.depth # 0 -> [s EXCEPT !.mode = "text", !.r = "more"]
      [] s.mode = "text" /\ c = Quote -> [s EXCEPT !.mode = "str", !.r = "more"]
      [] s.mode = "text" /\ Opens(c) ->
            [s EXCEPT !.depth = @ + 1, !.r = IF s.depth = MaxDepth THEN "err" ELSE "more"]
      [] s.mode = "text" /\ Closes(c) ->
            [s EXCEPT !.depth = @ - 1, !.r = IF s.depth = 1 THEN "end" ELSE "more"]
      [] OTHER -> [s EXCEPT !.r = "more"]

-----------------------------------------------------------------------------
\* mapreq.c, the splitter

NoScan == [r |-> "more", depth |-> 0, mode |-> "text"]

mapresp_json_begin ==
    [lvl |-> <<[role |-> "top", g |-> "pre", ext |-> NoScan]>>, key |-> <<>>,
     val |-> NoScan, act |-> "skip", elem |-> <<>>, len |-> 0,
     done |-> FALSE, err |-> FALSE, peers |-> <<>>, regions |-> <<>>]

IsObj(role) == role \in {"top", "derpmap", "regions"}
Level(m) == m.lvl[Len(m.lvl)]
In(m, g) == [m EXCEPT !.lvl[Len(m.lvl)].g = g]
AfterValue(role) == IF IsObj(role) THEN "obj after value" ELSE "arr after value"
Fail(m) == [m EXCEPT !.err = TRUE]

\* ms_store
ms_store(m, c) ==
    [m EXCEPT !.len = @ + 1,
              !.elem = IF m.act # "skip" /\ m.len < ElemCap THEN Append(@, c) ELSE @]

\* ms_value_end with ms_element: a collected value is handed on, unless it did
\* not fit the buffer.
ms_value_end(m) ==
    LET after == In(m, AfterValue(Level(m).role))
    IN  CASE m.act = "peer" /\ m.len <= ElemCap ->
                [after EXCEPT !.peers = Append(@, m.elem)]
          [] m.act = "region" /\ m.len <= ElemCap ->
                [after EXCEPT !.regions = Append(@, m.elem)]
          [] OTHER -> after

\* ms_value_start: descend into the container, or scan the value.
Descends(m, c) ==
    CASE Level(m).role = "top" /\ m.key = PeersKey /\ c = "[" -> "peers"
      [] Level(m).role = "top" /\ m.key = DerpMapKey /\ c = "{" -> "derpmap"
      [] Level(m).role = "derpmap" /\ m.key = RegionsKey /\ c = "{" -> "regions"
      [] OTHER -> "no"

ms_value_start(m, c) ==
    LET sub == Descends(m, c)
        act == CASE Level(m).role = "peers" -> "peer"
                 [] Level(m).role = "regions" -> "region"
                 [] OTHER -> "skip"
        val == scan_begin(c)
    IN  IF sub # "no"
        THEN [m EXCEPT !.lvl = Append(@, [role |-> sub, ext |-> scan_begin(c),
                                          g |-> IF c = "{" THEN "obj first" ELSE "arr first"]),
                       !.peers = IF sub = "peers" THEN <<>> ELSE @,
                       !.regions = IF sub = "derpmap" THEN <<>> ELSE @]
        ELSE IF val.r = "err" THEN Fail(m)
        ELSE ms_store([In(m, "value") EXCEPT !.val = val, !.act = act,
                                             !.elem = <<>>, !.len = 0], c)

\* ms_close: the top object is done; any other waits for the end of its extent.
ms_close(m) ==
    IF Len(m.lvl) = 1 THEN [m EXCEPT !.done = TRUE] ELSE In(m, "closed")

\* ms_grammar outside a value
Member(m, c) ==
    LET g == Level(m).g
    IN  CASE g = "closed" -> m
          [] g = "key esc" -> [In(m, "key") EXCEPT !.key = Append(@, c)]
          [] g = "key" /\ c = Quote -> In(m, "colon")
          [] g = "key" /\ c # Quote ->
                [In(m, IF c = Escape THEN "key esc" ELSE "key") EXCEPT !.key = Append(@, c)]
          [] g \notin {"closed", "key", "key esc"} /\ IsWs(c) -> m
          [] g = "pre" /\ c = "{" -> In(m, "obj first")
          [] g = "colon" /\ c = ":" -> In(m, "obj value")
          [] g = "obj value" /\ ~IsWs(c) -> ms_value_start(m, c)
          [] g = "obj after value" /\ c = "," -> In(m, "obj after comma")
          [] g = "arr after value" /\ c = "," -> In(m, "arr after comma")
          [] g \in {"obj first", "obj after value", "obj after comma"} /\ c = "}" -> ms_close(m)
          [] g \in {"obj first", "obj after value", "obj after comma"} /\ c = Quote ->
                [In(m, "key") EXCEPT !.key = <<>>]
          [] g \in {"arr first", "arr after value", "arr after comma"} /\ c = "]" -> ms_close(m)
          [] \/ g \in {"arr first", "arr after comma"} /\ c # "]" /\ ~IsWs(c)
             \/ g = "arr after value" /\ c \notin {"]", ","} /\ ~IsWs(c) -> ms_value_start(m, c)
          [] OTHER -> Fail(m)

ms_grammar(m, c) ==
    LET val == scan_byte(m.val, c)
        on  == [m EXCEPT !.val = val]
    IN  CASE Level(m).g # "value" -> Member(m, c)
          [] Level(m).g = "value" /\ val.r = "err" -> Fail(m)
          [] Level(m).g = "value" /\ val.r = "before" -> Member(ms_value_end(on), c)
          [] Level(m).g = "value" /\ val.r = "end" -> ms_value_end(ms_store(on, c))
          [] OTHER -> ms_store(on, c)

\* The extents that end with this byte close their containers, innermost first.
RECURSIVE PopClosed(_, _)
PopClosed(m, ended) ==
    LET k == Len(m.lvl)
    IN  IF k > 1 /\ Level(m).g = "closed" /\ k \in ended
        THEN PopClosed(In([m EXCEPT !.lvl = SubSeq(@, 1, k - 1)],
                          AfterValue(m.lvl[k - 1].role)), ended \ {k})
        ELSE IF ended # {} THEN Fail(m) ELSE m

ms_byte(m, c) ==
    LET ext == [m EXCEPT !.lvl = [k \in DOMAIN @ |->
                    IF k = 1 THEN @[k] ELSE [@[k] EXCEPT !.ext = scan_byte(@, c)]]]
        Ends(r) == {k \in 2..Len(m.lvl) : ext.lvl[k].ext.r = r}
        read == ms_grammar(ext, c)
    IN  CASE Ends("err") # {} -> Fail(ext)
          [] Ends("err") = {} /\ (read.err \/ Len(read.lvl) > Len(m.lvl)) ->
                IF Ends("end") = {} THEN read ELSE Fail(read)
          [] OTHER -> PopClosed(read, Ends("end"))

\* ms_inert_run: a byte that changes no scanner's state is only stored.
Inert(m, c) ==
    LET scans == {m.val} \cup {m.lvl[k].ext : k \in 2..Len(m.lvl)}
    IN  /\ Level(m).g = "value"
        /\ \A s \in scans : s.mode # "esc"
        /\ IF \A s \in scans : s.mode = "str"
           THEN c \notin {Quote, Escape}
           ELSE ~Delimits(c) /\ ~Opens(c) /\ c \notin {Quote, Escape}

mapresp_json_feed_AnyString(m, c) ==
    CASE m.err \/ m.done -> m
      [] ~(m.err \/ m.done) /\ (Inert(m, c) \/ (Level(m).g = "value" /\ m.val.mode = "str"
                                                /\ c \notin {Quote, Escape})) -> ms_store(m, c)
      [] OTHER -> ms_byte(m, c)
mapresp_json_feed(m, c) ==
    CASE m.err \/ m.done -> m
      [] ~(m.err \/ m.done) /\ Inert(m, c) -> ms_store(m, c)
      [] OTHER -> ms_byte(m, c)

-----------------------------------------------------------------------------
\* jsmn_split.h on a whole text: indexes just past a value, 0 if there is none

RECURSIVE tl_jsplit_ws(_, _)
tl_jsplit_ws(js, p) ==
    IF p <= Len(js) /\ IsWs(js[p]) THEN tl_jsplit_ws(js, p + 1) ELSE p

\* p is just past the opening quote.
RECURSIVE tl_jsplit_string(_, _)
tl_jsplit_string(js, p) ==
    IF p > Len(js) THEN 0
    ELSE IF js[p] = Quote THEN p + 1
    ELSE tl_jsplit_string(js, IF js[p] = Escape THEN p + 2 ELSE p + 1)

RECURSIVE Brackets(_, _, _)
Brackets(js, p, depth) ==
    IF p > Len(js) THEN 0
    ELSE IF js[p] = Quote
         THEN LET q == tl_jsplit_string(js, p + 1)
              IN  IF q = 0 THEN 0 ELSE Brackets(js, q, depth)
    ELSE IF Opens(js[p]) THEN (IF depth = MaxDepth THEN 0 ELSE Brackets(js, p + 1, depth + 1))
    ELSE IF Closes(js[p]) THEN (IF depth = 1 THEN p + 1 ELSE Brackets(js, p + 1, depth - 1))
    ELSE Brackets(js, p + 1, depth)

RECURSIVE Scalar(_, _)
Scalar(js, p) == IF p > Len(js) \/ Delimits(js[p]) THEN p ELSE Scalar(js, p + 1)

tl_jsplit_value(js, p) ==
    IF p > Len(js) THEN 0
    ELSE IF js[p] = Quote THEN tl_jsplit_string(js, p + 1)
    ELSE IF Opens(js[p]) THEN Brackets(js, p, 0)
    ELSE IF Scalar(js, p) > p THEN Scalar(js, p) ELSE 0

\* The members of an object, the elements of an array (obj: which), from p on:
\* [ok, list of [key, val]].
Broken == [ok |-> FALSE, list |-> <<>>]
And(x, rest) == [ok |-> rest.ok, list |-> <<x>> \o rest.list]

RECURSIVE Members(_, _, _)
Members(js, at, obj) ==
    LET q  == tl_jsplit_ws(js, at)
        p  == IF q <= Len(js) /\ js[q] = "," /\ at # 2 THEN tl_jsplit_ws(js, q + 1) ELSE q
        ks == IF obj THEN tl_jsplit_string(js, p + 1) ELSE p
        cl == tl_jsplit_ws(js, ks)
        vs == IF obj THEN tl_jsplit_ws(js, cl + 1) ELSE p
        ve == tl_jsplit_value(js, vs)
    IN  IF p > Len(js) THEN Broken
        ELSE IF js[p] = (IF obj THEN "}" ELSE "]") THEN [ok |-> TRUE, list |-> <<>>]
        ELSE IF obj /\ (js[p] # Quote \/ ks = 0) THEN Broken
        ELSE IF obj /\ (cl > Len(js) \/ js[cl] # ":") THEN Broken
        ELSE IF ve = 0 THEN Broken
        ELSE And([key |-> IF obj THEN SubSeq(js, p + 1, ks - 2) ELSE <<>>,
                  val |-> SubSeq(js, vs, ve - 1)], Members(js, ve, obj))

\* The whole-body parser the splitter replaced
Fits(list) ==
    SelectSeq([i \in DOMAIN list |-> list[i].val], LAMBDA v : Len(v) <= ElemCap)

\* The top object's members, one after the other, into out.
RECURSIVE Whole(_, _)
Whole(list, out) ==
    IF list = <<>> \/ ~out.ok THEN out
    ELSE LET kv == Head(list)
             members == Members(kv.val, 2, kv.val[1] = "{")
             regions == SelectSeq(members.list,
                                  LAMBDA x : x.key = RegionsKey /\ x.val[1] = "{")
             inner == [i \in DOMAIN regions |-> Members(regions[i].val, 2, TRUE)]
             all == FlattenSeq([i \in DOMAIN inner |-> inner[i].list])
         IN  Whole(Tail(list),
                CASE kv.key = PeersKey /\ kv.val[1] = "[" ->
                        [out EXCEPT !.peers = Fits(members.list), !.ok = members.ok]
                  [] kv.key = DerpMapKey /\ kv.val[1] = "{" ->
                        [out EXCEPT !.regions = Fits(all),
                                    !.ok = members.ok /\ \A i \in DOMAIN inner : inner[i].ok]
                  [] OTHER -> out)

mapresp_parse(js) ==
    LET at == tl_jsplit_ws(js, 1)
        body == SubSeq(js, at, Len(js))
        top == IF body # <<>> /\ body[1] = "{" THEN Members(body, 2, TRUE) ELSE Broken
        out == Whole(top.list, [ok |-> TRUE, peers |-> <<>>, regions |-> <<>>])
    IN  [out EXCEPT !.ok = @ /\ top.ok]

-----------------------------------------------------------------------------
RECURSIVE FeedAll(_, _)
FeedAll(m, s) == IF s = <<>> THEN m ELSE FeedAll(mapresp_json_feed(m, Head(s)), Tail(s))

SplitInit ==
    /\ \E s \in Starts : text = s /\ split = FeedAll(mapresp_json_begin, s)
    /\ fed = 0

Feed(c) ==
    /\ fed < MaxFed /\ fed' = fed + 1
    /\ ~split.done /\ ~split.err
    /\ text' = Append(text, c)
    /\ split' = mapresp_json_feed(split, c)

SplitNext == \E c \in Chars : Feed(c)

\* For every text, cut at any byte, the streaming splitter accepts exactly when
\* the whole-body iterators do and then collected the same elements
\* (mapresp_json_feed against tl_jsplit_*), whatever the strings, escapes,
\* nesting, misplaced brackets and oversized elements in it; and what it gave
\* up on is no text that one more byte would have made well-formed.
SplitAsWhole ==
    LET whole == mapresp_parse(text)
    IN  /\ (split.done /\ ~split.err) <=> whole.ok
        /\ whole.ok => split.peers = whole.peers /\ split.regions = whole.regions
        /\ split.err => \A c \in Chars : ~mapresp_parse(Append(text, c)).ok
=============================================================================
