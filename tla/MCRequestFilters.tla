-------------------------- MODULE MCRequestFilters --------------------------
(***************************************************************************)
(* RequestFilters for TLC.  The operations of a service have constant,     *)
(* appended and unchanged addresses, audiences of their own and shared     *)
(* ones, one template with variables and one without.                      *)
(***************************************************************************)
EXTENDS RequestFilters

Seg(s) == [field |-> NoField, segments |-> <<<<s>>>>]
Var(f, ss) == [field |-> f, segments |-> [i \in DOMAIN ss |-> <<ss[i]>>]]
Rule(operation, http_method, items, verb) ==
  [operation |-> operation, http_method |-> http_method,
   template |-> [items |-> items, verb |-> verb]]

Shelves == <<
  Rule("get", "GET", <<Seg("a"), Var(<<"shelf_id">>, <<"*">>)>>, NoVerb),          \* /a/{shelf_id}
  Rule("get", "GET", <<Seg("a")>>, NoVerb),                                        \* /a
  Rule("put", "PUT", <<Seg("a"), Var(<<"book", "name">>, <<"**">>)>>, "v"),        \* /a/{book.name=**}:v
  Rule("list", "GET", <<Var(<<"x">>, <<"*">>), Var(<<"y_z">>, <<"*">>)>>, NoVerb), \* /{x}/{y_z}
  Rule("any", "*", <<Seg("b"), Seg("a")>>, NoVerb)>>                               \* /b/a

Backend(translation, audience) ==
  [translation |-> translation, uri |-> <<<<"backend">>>>, audience |-> audience]

Service(service_rules, service_backend, credentials) ==
  [rules |-> service_rules, backend |-> service_backend, credentials |-> credentials,
   snake_names |-> {"shelf_id", "y_z"}, json_names |-> [n \in {"shelf_id", "book"} |-> "json"]]

Mixed ==
  [get |-> Backend("CONSTANT_ADDRESS", "aud1"), put |-> Backend("CONSTANT_ADDRESS", "aud2"),
   list |-> Backend("APPEND_PATH_TO_ADDRESS", "aud1")]
Other ==
  [get |-> Backend("APPEND_PATH_TO_ADDRESS", NoAudience), list |-> Backend("CONSTANT_ADDRESS", "aud1"),
   any |-> Backend("UNSPECIFIED", "aud2")]
NoBackend == [o \in {} |-> Backend("UNSPECIFIED", NoAudience)]

MCServiceInfos ==
  [imds |-> Service(Shelves, Mixed, "imds"),
   iam |-> Service(Shelves, Other, "iam"),
   iam_secret |-> Service(Shelves, Mixed, "iam_secret"),
   unset |-> Service(Shelves, Other, "unset"),
   local |-> Service(Shelves, NoBackend, "iam"),
   \* /a/{shelf_id} and /a/{x} are the same node.
   duplicate |-> Service(Append(Shelves, Rule("dup", "GET", <<Seg("a"), Var(<<"x">>, <<"*">>)>>, NoVerb)),
                         Mixed, "imds"),
   empty |-> Service(<<>>, NoBackend, "imds"),
   invalid |-> Service(<<Rule("bad", "GET", <<Var(<<"x">>, <<>>)>>, NoVerb)>>, NoBackend, "imds")]

Query(params) == [present |-> TRUE, params |-> params]
Queries ==
  {[present |-> FALSE, params |-> <<>>],
   Query(<<[name |-> <<>>, value |-> <<>>]>>),                                                   \* "?"
   Query(<<[name |-> <<>>, value |-> <<<<"q=1">>>>], [name |-> <<>>, value |-> <<<<"x=2">>>>]>>)} \* "?q=1&x=2"

MCHttpRequests ==
  [method : {"GET", "PUT"}, override : {NoOverride, "PUT"},
   path : {<<<<"a">>>>, <<<<"a">>, <<"b">>>>, <<<<"b">>, <<"a">>>>, <<<<"b">>, <<"b">>>>,
           <<<<"a">>, <<"b">>, <<"a", "v">>>>, <<<<"a">>, <<"b">>, <<"a">>>>,
           <<<<"a">>, <<"r&d">>>>, <<<<"r&d">>, <<"b">>>>, <<<<"a">>, <<"b">>, <<"r&d">>, <<"a", "v">>>>},
   query : Queries]

MCRules ==
  UNION {{service.rules[k] : k \in DOMAIN service.rules} : service \in {MCServiceInfos[i] : i \in DOMAIN MCServiceInfos}}
MCRequests == {rq.path : rq \in MCHttpRequests}

\* The values with "r&d" in them: the texts end with "r" and begin with "d".
MCAmpersands ==
  LET values == {<<<<"r&d">>>>, <<<<"b">>, <<"r&d">>>>, <<<<"r&d">>, <<"a">>>>, <<<<"b">>, <<"r&d">>, <<"a">>>>}
  IN [value \in values |->
        LET i == CHOOSE k \in DOMAIN value : value[k] = <<"r&d">>
        IN <<SubSeq(value, 1, i - 1) \o <<<<"r">>>>, <<<<"d">>>> \o SubSeq(value, i + 1, Len(value))>>]

=============================================================================
