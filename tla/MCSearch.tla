------------------------------ MODULE MCSearch ------------------------------
(***************************************************************************)
(* Search with queries whose matches stand alone, start together, lie in   *)
(* one another and overlap: each is a real query with its words cut down   *)
(* to a character or two, and the spans the regular expressions find.      *)
(***************************************************************************)
EXTENDS Search

Text(words) ==
  LET joined[i \in 0..Len(words)] == IF i = 0 THEN <<>> ELSE joined[i - 1] \o words[i]
  IN  joined[Len(words)]

Span(start, end) == [start |-> start, end |-> end]

Found(host, v4, v6, mail, dom, ns) ==
  [rule \in Rules |->
     CASE rule = "hostname" -> host [] rule = "ipv4" -> v4 [] rule = "ipv6" -> v6
       [] rule = "email" -> mail [] rule = "internal_domain" -> dom
       [] rule = "k8s_namespace" -> ns]

Query(words, found) == [text |-> Text(words), found |-> found]

V4 == <<"0", ".", "0", ".", "0", ".", "0">>
Host == <<"a", ".", "z">>
Word == <<"z", " ">>

\* The internal domains are *.z, the namespaces z* and z_*.
MCQueries ==
  {\* nothing; blanks
   Query(<<>>, Found({}, {}, {}, {}, {}, {})),
   Query(<<<<" ">>>>, Found({}, {}, {}, {}, {}, {})),
   \* an address, a host at the end; the host is in an internal domain
   Query(<<V4, <<" ">>, Host>>,
         Found({Span(8, 11)}, {Span(0, 7)}, {}, {}, {Span(8, 11)}, {Span(10, 11)})),
   \* a sentence that ends with an address
   Query(<<Word, V4, <<".">>>>, Found({}, {Span(2, 9)}, {}, {}, {}, {Span(0, 1)})),
   \* an IPv4 address in an IPv6 one: the first match ends in the second
   Query(<<<<":", ":", "a", ":">>, V4>>, Found({}, {Span(4, 11)}, {Span(0, 5)}, {}, {}, {})),
   \* a mail address, with a host and a namespace in it
   Query(<<Word, <<"z", "@">>, Host>>,
         Found({Span(4, 7)}, {}, {}, {Span(2, 7)}, {Span(4, 7)},
               {Span(0, 1), Span(2, 3), Span(6, 7)})),
   \* a namespace that ends in a host
   Query(<<<<"z", "_">>, Host, <<" ">>, V4>>,
         Found({Span(2, 5)}, {Span(6, 13)}, {}, {}, {Span(2, 5)},
               {Span(0, 3), Span(0, 1), Span(4, 5)}))}

MCRuleLists ==
  {<<"hostname", "ipv4", "ipv6", "email", "internal_domains", "k8s_namespace">>,
   <<"ipv4", "ipv6">>, <<"k8s_namespaces", "hostname">>, <<"sensitive_namespace">>,
   <<"ipv4", "token">>, <<>>}

MCResults ==
  {[what |-> "r", trust |-> "untrusted_web"], [what |-> "s", trust |-> "official_web_doc"]}
=============================================================================
