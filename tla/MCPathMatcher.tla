--------------------------- MODULE MCPathMatcher ---------------------------
(***************************************************************************)
(* PathMatcher for TLC.  The templates overlap: literals under "*" and     *)
(* "**", suffixes after "**", variables before, over and after wildcards,  *)
(* a verb that is also a literal, and two that do not parse.               *)
(***************************************************************************)
EXTENDS PathMatcher

Seg(s) == [field |-> NoField, segments |-> <<<<s>>>>]
Var(f, ss) == [field |-> f, segments |-> [i \in DOMAIN ss |-> <<ss[i]>>]]
Template(items, verb) == [items |-> items, verb |-> verb]

Templates == {
  Template(<<>>, NoVerb),                                        \* /
  Template(<<Seg("a"), Seg("b")>>, NoVerb),                      \* /a/b
  Template(<<Seg("a"), Var("x", <<"*">>)>>, NoVerb),             \* /a/{x}
  Template(<<Var("y", <<"*">>), Seg("b")>>, NoVerb),             \* /{y}/b
  Template(<<Seg("a"), Var("x", <<"**">>)>>, NoVerb),            \* /a/{x=**}
  Template(<<Var("x", <<"*", "**">>), Var("y", <<"b">>)>>, NoVerb), \* /{x=*/**}/{y=b}
  Template(<<Var("x", <<"a">>), Var("y", <<"**", "b">>)>>, "v"), \* /{x=a}/{y=**/b}:v
  Template(<<Var("x", <<"**">>)>>, "b"),                         \* /{x=**}:b
  Template(<<Seg("a")>>, "b"),                                   \* /a:b
  Template(<<Seg("**"), Seg("*")>>, NoVerb),                     \* /**/*
  Template(<<Var("x", <<>>)>>, NoVerb)}                          \* /{x=}

MCRules ==
  [http_method : {"GET"}, template : Templates] \cup
  [http_method : {"*"}, template :
     {t \in Templates : Len(t.items) = 2 /\ t.items[1] = Seg("a") /\ t.verb = NoVerb}]

MCMethods == {"GET", "POST"}

\* Every path of up to two segments over "a", "b" and "c", longer ones that
\* end in "/b", verbs after a segment, and segments that are empty or look like
\* wildcards.
Texts == {<<"a">>, <<"b">>, <<"c">>}
MCRequests ==
  {<<>>} \cup {<<t>> : t \in Texts} \cup {<<t, u>> : t, u \in Texts} \cup
  {<<t, u, <<"b">>>> : t, u \in Texts} \cup
  {<<<<"a">>, t, <<"c">>>> : t \in Texts} \cup
  {<<t, <<"c">>, <<"b">>, <<"b">>>> : t \in Texts} \cup
  {Append(p, <<s, v>>) : p \in {<<>>, <<<<"a">>>>}, s \in {"a", "b"}, v \in {"v", "b", "z"}} \cup
  {<<<<"a">>, <<"c">>, <<"b", "v">>>>, <<<<"a">>, <<"">>, <<"b">>>>, <<<<"a">>, <<"">>>>,
   <<<<"**">>, <<"b">>>>, <<<<"a">>, <<"*">>>>}

=============================================================================
