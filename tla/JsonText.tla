------------------------------- MODULE JsonText -------------------------------
(***************************************************************************)
(* The JSON helpers of the sample: texts put together with json_append and *)
(* json_data_make, texts written by boost's ptree (common_CreateJsonData,  *)
(* make_json, map2json), and ParseJsonData, which reads parameters out of  *)
(* a text. A text is a sequence of tokens. json_append copies a string     *)
(* between quotes as it is, so a quote in the string ends it early; of a   *)
(* value the model keeps whether that happens.                             *)
(***************************************************************************)
EXTENDS Naturals, Sequences, FiniteSets

CONSTANTS
    Keys,       \* key names, numbered in the order in which std::map has them
    MaxMembers  \* bound: members appended to one text

\* Values: bare ones (true, a number), a string without quotes, one with.
Kinds == {"bare", "string", "quoted"}

Token(sort) == [sort |-> sort, key |-> 0, kind |-> "bare"]
Open == Token("open")
Close == Token("close")
Comma == Token("comma")
Member(key, kind) == [sort |-> "member", key |-> key, kind |-> kind]

VARIABLES
    text,      \* the text under construction
    appended,  \* history: the members given to json_append, and their commas, of
               \* the text under construction or of the data of the answer
    body,      \* the text handed out last: an answer, or a ptree's text
    origin,    \* history: what made body
    odata,     \* odata of ParseJsonData: empty before a key has its value
    parsed,    \* what ParseJsonData returned last
    selftest   \* what ParseJson said of the text of CreateJson

vars == <<text, appended, body, origin, odata, parsed, selftest>>

None == <<>>
NoData == [k \in Keys |-> "empty"]

Init ==
    /\ text = None /\ appended = <<>> /\ body = None /\ origin = "none"
    /\ odata = NoData /\ parsed = "none"
    /\ selftest = "not run"

-----------------------------------------------------------------------------
(* What read_json takes: members with commas between them in braces. A     *)
(* string that ends early is followed by something that is neither.        *)

IsObject(t) ==
    /\ Len(t) >= 2 /\ t[1] = Open /\ t[Len(t)] = Close
    /\ Len(t) = 2 \/ Len(t) % 2 = 1
    /\ \A i \in 2..(Len(t) - 1) :
           IF i % 2 = 0 THEN t[i].sort = "member" /\ t[i].kind # "quoted"
           ELSE t[i] = Comma

KeysOf(t) == {t[i].key : i \in {j \in DOMAIN t : t[j].sort = "member"}}

-----------------------------------------------------------------------------
(* json_start, json_append, json_end, json_data_make. *)

json_start ==
    /\ text = None
    /\ text' = <<Open>> /\ appended' = <<>> /\ body' = None /\ origin' = "none"
    /\ odata' = NoData /\ parsed' = "none"
    /\ UNCHANGED selftest

\* The text with a member, and a comma behind it when it is asked for. The
\* changed form puts the comma in front.
Appended_CommaFirst(t, key, kind, comma) ==
    (IF comma THEN Append(t, Comma) ELSE t) \o <<Member(key, kind)>>
Appended(t, key, kind, comma) ==
    LET longer == Append(t, Member(key, kind))
    IN  IF comma THEN Append(longer, Comma) ELSE longer

\* The six overloads differ in how they print the value.
json_append(key, kind, comma) ==
    /\ text # None /\ text[Len(text)] # Close /\ Len(appended) < MaxMembers
    /\ text' = Appended(text, key, kind, comma)
    /\ appended' = Append(appended, [kind |-> kind, comma |-> comma])
    /\ UNCHANGED <<body, origin, odata, parsed, selftest>>

json_end ==
    /\ text # None /\ text[Len(text)] # Close
    /\ text' = Append(text, Close)
    /\ UNCHANGED <<appended, body, origin, odata, parsed, selftest>>

\* An answer has the members result, msg and data. Its messages have no quotes;
\* a text with a member, as data, has some.
Answer(data) ==
    LET result == Appended(<<Open>>, 1, "bare", TRUE)
        msg == Appended(result, 2, "string", TRUE)
    IN  Append(Appended(msg, 3, data, TRUE), Close)

Ended == text # None /\ text[Len(text)] = Close

\* A text leaves the helpers; the next one begins empty. Who reads it has an odata
\* of his own, as the handlers of on_http do.
HandOut(t, from, members) ==
    /\ body' = t /\ origin' = from /\ text' = None /\ appended' = members
    /\ odata' = NoData /\ parsed' = "none"
    /\ UNCHANGED selftest

\* An answer without data, or with the text that was put together, to which the
\* callers but one have not given its json_end.
json_data_make ==
    LET members == IF text = None THEN <<>> ELSE appended
    IN  HandOut(Answer(IF members = <<>> THEN "string" ELSE "quoted"), "answer", members)

-----------------------------------------------------------------------------
(* Texts that a ptree writes: every value is a string, with its quotes     *)
(* escaped, and there are commas between the members only.                 *)

Written(keys) ==
    LET last == 2 * Len(keys) + 1
    IN  [i \in 1..last |-> IF i = 1 THEN Open ELSE IF i = last THEN Close
                           ELSE IF i % 2 = 0 THEN Member(keys[i \div 2], "string") ELSE Comma]

\* Every value is itself read as JSON; one that is not makes the call fail and
\* leaves str as it was.
common_CreateJsonData(valid) ==
    /\ text = None
    /\ IF \A k \in Keys : valid[k] THEN HandOut(Written(<<1, 2>>), "ptree", <<>>) ELSE UNCHANGED vars

\* The answer with an escaped string as data, and the one with a list.
make_json == text = None /\ HandOut(Written(<<1, 2, 3>>), "ptree", <<>>)
make_json_kline == text = None /\ HandOut(Written(<<1, 2, 3>>), "ptree", <<>>)

\* One member per entry of the map; also what a client sends as parameters.
map2json(keys) == text = None /\ HandOut(Written(keys), "ptree", <<>>)

-----------------------------------------------------------------------------
(* ParseJsonData reads the keys of odata one after the other, in the order *)
(* of the map; the first that is missing ends it with an exception.        *)

ParseJsonData ==
    /\ body # None
    /\ LET found(k) == IsObject(body) /\ \A j \in Keys : j <= k => j \in KeysOf(body)
       IN  /\ odata' = [k \in Keys |-> IF found(k) THEN "set" ELSE odata[k]]
           /\ parsed' = IF \A k \in Keys : found(k) THEN "true" ELSE "false"
    /\ UNCHANGED <<text, appended, body, origin, selftest>>

\* The same again in ServiceHelper.h.
common_ParseJsonData == ParseJsonData

-----------------------------------------------------------------------------
(* test_json: CreateJson, then ParseJson, whose results it does not look   *)
(* at. The value weight is a truth value, and a ptree has it as a word.    *)

CreateJson == [name |-> "word", weight |-> "word", all_phone |-> <<"number", "number">>]

\* get<std::string> takes every value, get<int> only a number.
ParseJson(tree) == tree.weight = "number"

test_json ==
    /\ text = None /\ body = None
    /\ selftest' = IF ParseJson(CreateJson) THEN "accepted" ELSE "rejected"
    /\ UNCHANGED <<text, appended, body, origin, odata, parsed>>
-----------------------------------------------------------------------------
KeyLists == {s \in UNION {[1..n -> Keys] : n \in 1..Cardinality(Keys)} :
                \A i, j \in DOMAIN s : i < j => s[i] < s[j]}

Next ==
    \/ json_start \/ json_end \/ json_data_make
    \/ \E key \in Keys, kind \in Kinds, comma \in BOOLEAN : json_append(key, kind, comma)
    \/ \E valid \in [Keys -> BOOLEAN] : common_CreateJsonData(valid)
    \/ make_json \/ make_json_kline \/ \E keys \in KeyLists : map2json(keys)
    \/ ParseJsonData \/ common_ParseJsonData \/ test_json

Spec == Init /\ [][Next]_vars

-----------------------------------------------------------------------------
(* Properties. *)

TypeOK ==
    /\ Len(appended) \in 0..MaxMembers
    /\ odata \in [Keys -> {"empty", "set"}]
    /\ parsed \in {"none", "true", "false"}
    /\ body # None => body[1] = Open /\ body[Len(body)] = Close

\* A text of json_append can be read exactly when every member but the last was
\* given a comma, the last was not, and no string had a quote in it.
CommasDecide ==
    Ended => (IsObject(text) <=>
        \A i \in DOMAIN appended :
            /\ appended[i].comma = (i < Len(appended))
            /\ appended[i].kind # "quoted")

\* The text without the comma behind its last member.
Repaired(t) == Append(SubSeq(t, 1, Len(t) - 2), Close)

\* json_data_make does not make what the comment above it shows, which is
\* {"result":true,"msg":"success","data":{}}: the comma behind its last member lets
\* read_json refuse every answer; and without that comma an answer could be read
\* exactly when no member was put into its data, because data is a string and its
\* quotes stay as they are. Every text of a ptree can be read.
AnswersAreNotAsShown ==
    /\ origin = "answer" =>
        /\ ~IsObject(body)
        /\ IsObject(Repaired(body)) <=> appended = <<>>
    /\ origin = "ptree" => IsObject(body)

\* ParseJsonData that returns false may have assigned the values of some keys, and
\* they are the first ones of the map; true means all of them.
ParseStopsAtFirstMissing ==
    /\ parsed = "true" => \A k \in Keys : odata[k] = "set"
    /\ parsed = "false" => \E k \in Keys :
          \A j \in Keys : j >= k => odata[j] = "empty"

\* The helpers: which texts can be read, and what reading assigns.
JsonIsSound ==
    /\ TypeOK
    /\ CommasDecide /\ AnswersAreNotAsShown /\ ParseStopsAtFirstMissing

===============================================================================
