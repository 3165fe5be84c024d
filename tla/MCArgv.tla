------------------------------- MODULE MCArgv -------------------------------
(***************************************************************************)
(* Argv, for every command of one or two fields that clap accepts, and for *)
(* some of three, with the strings that clap treats in a way of their own. *)
(***************************************************************************)
EXTENDS Argv

MCHyphened == {"-x", "--", "--a", "--b", "--c"}
MCUnpaired == {"raw"}

\* The strings: a word, two with a delimiter, hyphens, a flag of the command,
\* the name of a subcommand, bytes that are not UTF-8, the control word.
String == {<<"x">>, <<"x", ",", "y">>, <<"-x">>, <<"--">>, <<"--a">>, <<"run">>,
           <<"raw">>, <<"__outboard">>, <<>>}

Arg(flag, shape) ==
    [flag |-> flag, shape |-> shape, action |-> "default", equals |-> FALSE,
     delimiter |-> FALSE, place |-> "", skip |-> FALSE]

Flags(flag) ==
    {Arg(flag, "bool"), [Arg(flag, "bool") EXCEPT !.action = "set_false"],
     [Arg(flag, "vec") EXCEPT !.action = "count"],
     [Arg(flag, "option") EXCEPT !.skip = TRUE],
     [Arg(flag, "option") EXCEPT !.equals = TRUE],
     [Arg(flag, "vec") EXCEPT !.delimiter = TRUE],
     [Arg(flag, "vec") EXCEPT !.delimiter = TRUE, !.equals = TRUE]}
    \cup {Arg(flag, shape) : shape \in {"one", "option", "vec", "optvec"}}
Places ==
    {Arg("", shape) : shape \in {"one", "option", "vec", "optvec"}}
    \cup {[Arg("", "vec") EXCEPT !.delimiter = TRUE]}
    \cup {[Arg("", shape) EXCEPT !.place = "last"] : shape \in {"option", "vec", "optvec"}}
    \cup {[Arg("", "vec") EXCEPT !.place = "trailing"]}
Subs == {Arg("", "sub"), Arg("", "optsub")}

\* What clap asserts of the positionals of a command: a required one is not
\* after an optional one, one that takes many is the last or before one that
\* is marked last, which is the last, like one with trailing arguments.
Accepted(fields) ==
    \A k, m \in DOMAIN fields :
       k < m /\ positional(fields[k]) /\ positional(fields[m]) =>
          /\ fields[m].shape = "one" => fields[k].shape = "one"
          /\ fields[k].place = ""
          /\ TakesMany(fields[k]) => fields[m].place = "last"

None == <<>>
Variants == [run |-> <<Arg("--b", "bool"), Arg("", "option")>>, status |-> None]

Plain(fields) == [fields |-> fields, variants |-> None, group |-> {}]
WithSub(fields) == [fields |-> fields, variants |-> Variants, group |-> {}]

One == {<<f>> : f \in Flags("--a") \cup Places}
Two == {<<f, g>> : f \in Flags("--a") \cup Places, g \in Flags("--b") \cup Places}
SubAmong ==
    {<<f, g>> : f \in Flags("--a") \cup Places, g \in Subs}
    \cup {<<g, f>> : f \in Flags("--a") \cup Places, g \in Subs}
    \cup {<<Arg("", "vec"), Arg("--a", "bool"), g>> : g \in Subs}

\* A group is a struct of optional fields behind an Option.
Groupable(f) == f.shape \in {"bool", "option", "vec"} /\ f.action = "default" /\ ~f.skip

MCCommand ==
    {Plain(fs) : fs \in {fs \in One \cup Two : Accepted(fs)}}
    \cup {[Plain(fs) EXCEPT !.group = {2}] :
             fs \in {fs \in Two : Accepted(fs) /\ Groupable(fs[2])}}
    \cup {WithSub(fs) : fs \in {fs \in SubAmong : Accepted(fs)}}
    \cup {Plain(<<Arg("", "option"), Arg("--a", "bool"), f>>) : f \in {g \in Places : g.place # ""}}

Val(some, items) == [some |-> some, items |-> items]
Lists == {<<>>} \cup {<<s>> : s \in String}
         \cup {<<<<"x">>, s>> : s \in {<<"x">>, <<"-x">>, <<"run">>, <<>>}}

FieldValue(f) ==
    CASE f.shape = "bool" -> {Val(b, <<>>) : b \in BOOLEAN}
      [] f.action = "count" -> {Val(TRUE, [k \in 1..n |-> <<>>]) : n \in 0..2}
      [] f.shape = "one" -> {Val(TRUE, <<s>>) : s \in String}
      [] f.shape = "option" -> {Val(FALSE, <<>>)} \cup {Val(TRUE, <<s>>) : s \in String}
      [] f.shape = "vec" /\ f.action = "default" -> {Val(TRUE, l) : l \in Lists}
      [] f.shape = "optvec" -> {Val(FALSE, <<>>)} \cup {Val(TRUE, l) : l \in Lists}
      [] f.shape = "sub" -> {Val(TRUE, <<<<v>>>>) : v \in {"run", "status"}}
      [] f.shape = "optsub" -> {Val(FALSE, <<>>)} \cup {Val(TRUE, <<<<v>>>>) : v \in {"run", "status"}}

\* The values of the fields, each with each.
Combined(fields) ==
    CASE Len(fields) = 1 -> {<<v>> : v \in FieldValue(fields[1])}
      [] Len(fields) = 2 -> {<<v, w>> : v \in FieldValue(fields[1]), w \in FieldValue(fields[2])}
      [] Len(fields) = 3 -> {<<v, w, u>> : v \in FieldValue(fields[1]),
                                w \in FieldValue(fields[2]), u \in FieldValue(fields[3])}

\* The values of the chosen variant.
Inner(c, vals) ==
    IF \E k \in DOMAIN vals : c.fields[k].shape \in {"sub", "optsub"} /\ vals[k].items = <<<<"run">>>>
    THEN {<<Val(b, <<>>), v>> : b \in BOOLEAN,
             v \in {Val(FALSE, <<>>), Val(TRUE, <<<<"x">>>>), Val(TRUE, <<<<"-x">>>>), Val(TRUE, <<<<"run">>>>)}}
    ELSE {<<>>}

Groups(c, vals) ==
    IF c.group = {} THEN {FALSE}
    ELSE IF \A k \in c.group : vals[k] = Default(c.fields[k]) THEN BOOLEAN ELSE {TRUE}

MCValue(c) ==
    UNION {{[vals |-> vals, inner |-> inner, group |-> g] :
                inner \in Inner(c, vals), g \in Groups(c, vals)} : vals \in Combined(c.fields)}
=============================================================================
