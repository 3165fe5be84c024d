-------------------------------- MODULE Argv --------------------------------
(***************************************************************************)
(* A typed clap value on its way from host to plugin: the code that        *)
(* derive(ToArgv) generates writes it field by field as arguments, the     *)
(* arguments reach the plugin as those of a process or, as WireOsStrings,  *)
(* in an invoke frame, and clap parses them again.                         *)
(*                                                                         *)
(* A string is a sequence of atoms: a word, a delimiter, "=", a flag.      *)
(* clap is external: its rules are those of a command without settings.    *)
(***************************************************************************)
EXTENDS Naturals, SequencesExt

CONSTANTS
    Command,     \* commands: their fields, variants and optional group
    Value(_),    \* the values of a command
    Hyphened,    \* atoms that begin with a hyphen, flags and "--" among them
    Unpaired,    \* atoms that are not UTF-8
    Platform     \* of host and plugin: "unix", "windows" or "other"

Escape == <<"--">>
Delimiter == ","

\* A field is its FieldCfg with its TypeShape; flag "" is a positional.  A count
\* is a vec of that many empty strings.
Shape == {"bool", "one", "option", "vec", "optvec", "sub", "optsub"}
Field ==
    [flag      : {""} \cup Hyphened,
     shape     : Shape,
     action    : {"default", "set_false", "count"},
     equals    : BOOLEAN,                        \* require_equals
     delimiter : BOOLEAN,                        \* value_delimiter
     place     : {"", "last", "trailing"},
     skip      : BOOLEAN]

\* What the macro compiles: flags that are only set need a name and a bool.
Derivable(f) ==
    /\ f.shape = "bool" \/ f.action # "default" => f.flag # ""
    /\ f.action = "set_false" => f.shape = "bool"

\* On any other platform from_os is to_string_lossy.
ASSUME CommandAssumption ==
    /\ Platform \in {"unix", "windows"}
    /\ \A c \in Command :
          LET fields == Range(c.fields) \cup UNION {Range(c.variants[v]) : v \in DOMAIN c.variants}
          IN \A f \in fields : f \in Field /\ Derivable(f)

VARIABLES
    cmd,     \* the command
    value,   \* its value: of each field whether it is there (the Boolean, Some) and
             \* its strings; the same of the chosen variant; whether the group is Some
    argv,
    phase,   \* emit, parse, accepted, rejected, diverted
    at,      \* the field that is written next
    rest,    \* what clap has still to parse
    level,   \* 1, or 2 in the subcommand
    sub,     \* the variant it found, or "none"
    opt,     \* the option that waits for its value, or 0
    inVec,   \* the last value went to a positional that takes more
    pos,     \* positional counter
    escaped, \* only positionals follow
    found    \* the values of each field, on each level

emitVars == <<cmd, value, argv, at>>
parseVars == <<rest, level, sub, opt, inVec, pos, escaped, found>>
vars == <<emitVars, phase, parseVars>>

Nothing(fields) == [k \in DOMAIN fields |-> <<>>]

Init ==
    /\ cmd \in Command
    /\ value \in Value(cmd)
    /\ argv = <<>>
    /\ phase = "emit"
    /\ at = 1
    /\ rest = <<>>
    /\ level = 1 /\ sub = "none"
    /\ opt = 0 /\ inVec = FALSE /\ pos = 1 /\ escaped = FALSE
    /\ found = <<Nothing(cmd.fields), <<>>>>

(***************************************************************************)
(* derive(ToArgv).                                                         *)
(***************************************************************************)
positional(f) == f.flag = "" /\ f.shape \notin {"sub", "optsub"} /\ ~f.skip

\* The separator of emit_field: clap takes all that follows as values.
\* Mutant of separator: trailing arguments are written like others.
separatorOfLast(f) == positional(f) /\ f.place = "last"
separator(f) == positional(f) /\ f.place \in {"last", "trailing"}

push_flag_value(flag, v, equals) ==
    IF equals THEN <<<<flag, "=">> \o v>> ELSE <<<<flag>>, v>>

push_value(f, v) == IF positional(f) THEN <<v>> ELSE push_flag_value(f.flag, v, f.equals)

\* The strings of a vector, joined into one by the delimiter if it has one.
Joined(f, items) ==
    IF f.delimiter /\ items # <<>>
    THEN <<FlattenSeq([k \in DOMAIN items |->
                          IF k = 1 THEN items[k] ELSE <<Delimiter>> \o items[k]])>>
    ELSE items

\* emit_one and emit_vector.
emit_values(f, items) ==
    (IF separator(f) /\ items # <<>> THEN <<Escape>> ELSE <<>>)
    \o FlattenSeq([k \in DOMAIN Joined(f, items) |-> push_value(f, Joined(f, items)[k])])

\* emit_field, of an argument.
\* Mutant of emit_arg: a flag is written when the Boolean is TRUE, SetFalse or not.
emit_arg_set_true(f, v) ==
    IF f.action = "set_false" /\ ~f.skip THEN IF v.some THEN <<<<f.flag>>>> ELSE <<>>
    ELSE IF f.shape = "bool" THEN IF v.some /\ ~f.skip THEN <<<<f.flag>>>> ELSE <<>>
    ELSE IF f.skip \/ ~v.some THEN <<>>
    ELSE IF f.action = "count" THEN [k \in DOMAIN v.items |-> <<f.flag>>] ELSE emit_values(f, v.items)
emit_arg(f, v) ==
    CASE f.skip -> <<>>
      [] ~f.skip /\ f.shape = "bool" /\ f.action = "default" ->
             IF v.some THEN <<<<f.flag>>>> ELSE <<>>
      [] ~f.skip /\ f.action = "set_false" -> IF v.some THEN <<>> ELSE <<<<f.flag>>>>
      [] ~f.skip /\ f.action = "count" -> [k \in DOMAIN v.items |-> <<f.flag>>]
      [] ~f.skip /\ f.shape # "bool" /\ f.action = "default" ->
             IF v.some THEN emit_values(f, v.items) ELSE <<>>

emit_struct(fields, vals) ==
    FlattenSeq([k \in DOMAIN fields |-> emit_arg(fields[k], vals[k])])

\* emit_field of a subcommand, and expand_enum: the name of the variant and its
\* fields.  A None is not written.
emit_field(k) ==
    LET f == cmd.fields[k]
        v == value.vals[k]
    IN IF f.shape \notin {"sub", "optsub"} THEN emit_arg(f, v)
       ELSE IF v.some THEN v.items \o emit_struct(cmd.variants[v.items[1][1]], value.inner)
       ELSE <<>>

\* expand_struct.  An Option<T> that is flattened is written if it is Some.
Emit ==
    /\ phase = "emit" /\ at <= Len(cmd.fields)
    /\ argv' = IF at \in cmd.group /\ ~value.group THEN argv ELSE argv \o emit_field(at)
    /\ at' = at + 1
    /\ UNCHANGED <<cmd, value, phase, parseVars>>

(***************************************************************************)
(* The way to the plugin.                                                  *)
(***************************************************************************)
\* An atom in the units of an encoding: characters, bytes, or wide units.  One
\* that is not UTF-8 is no character, and in a text becomes the replacement.
Replacement == "U+FFFD"
Unit(encoding, a) == <<encoding, IF encoding = "utf8" /\ a \in Unpaired THEN Replacement ELSE a>>

WireOsString(encoding, s) ==
    [encoding |-> encoding, data |-> [k \in DOMAIN s |-> Unit(encoding, s[k])]]

\* Mutant of from_os: to_string_lossy on every platform.
from_os_lossy(s) == WireOsString("utf8", s)
\* Text if it is text, else the platform's own units, if it has any.
from_os(s) ==
    LET to_str == \A k \in DOMAIN s : s[k] \notin Unpaired
    IN WireOsString(IF to_str \/ Platform = "other" THEN "utf8" ELSE Platform, s)

\* into_os, of text and of the units of this platform; other units are an error.
Decodes(w) == w.encoding \in {"utf8", Platform}
into_os(w) == [k \in DOMAIN w.data |-> w.data[k][2]]

\* The arguments of an InvokeRequest, and its args_os in the plugin.
SendFrame ==
    LET wire == [k \in DOMAIN argv |-> from_os(argv[k])]
    IN /\ phase = "emit" /\ at > Len(cmd.fields)
       /\ rest' = [k \in DOMAIN wire |-> into_os(wire[k])]
       /\ phase' = IF \A k \in DOMAIN wire : Decodes(wire[k]) THEN "parse" ELSE "rejected"
       /\ UNCHANGED <<emitVars, level, sub, opt, inVec, pos, escaped, found>>

\* command_typed: the arguments of a process, which looks for a control request
\* before it parses them.
RunProcess ==
    /\ phase = "emit" /\ at > Len(cmd.fields)
    /\ phase' = IF argv # <<>> /\ argv[1] = <<"__outboard">> THEN "diverted" ELSE "parse"
    /\ rest' = argv
    /\ UNCHANGED <<emitVars, level, sub, opt, inVec, pos, escaped, found>>

(***************************************************************************)
(* clap, one argument at a time.                                           *)
(***************************************************************************)
Fields == IF level = 1 THEN cmd.fields ELSE cmd.variants[sub]

\* The positionals of a list of fields, by index.
Positionals(fields) == SelectSeq([k \in DOMAIN fields |-> k], LAMBDA k : positional(fields[k]))

HasLast == \E k \in DOMAIN Fields : positional(Fields[k]) /\ Fields[k].place = "last"

TakesMany(f) == f.shape \in {"vec", "optvec"}
TakesNone(f) == f.shape = "bool" \/ f.action = "count"
MayRepeat(f) == TakesMany(f) \/ f.action = "count"

\* A value is cut at the delimiters.
Split(s) ==
    FoldLeft(LAMBDA pieces, a : IF a = Delimiter THEN Append(pieces, <<>>)
                                ELSE [pieces EXCEPT ![Len(pieces)] = Append(@, a)],
             <<<<>>>>, s)

Reject ==
    /\ phase' = "rejected"
    /\ UNCHANGED <<emitVars, parseVars>>

\* Field k gets a value, unless it has one and takes only one.
Give(k, v) ==
    /\ found' = [found EXCEPT ![level][k] = @ \o (IF Fields[k].delimiter THEN Split(v) ELSE <<v>>)]
    /\ rest' = Tail(rest)
    /\ UNCHANGED <<emitVars, phase, level, sub>>
Full(k) == ~MayRepeat(Fields[k]) /\ found[level][k] # <<>>

Parsing == phase = "parse" /\ rest # <<>>
Token == Head(rest)

\* The name of a subcommand, where no value is awaited.
NamesSubcommand ==
    /\ ~escaped /\ opt = 0 /\ ~inVec /\ level = 1
    /\ Len(Token) = 1 /\ Token[1] \in DOMAIN cmd.variants
ParseSubcommand ==
    /\ Parsing /\ NamesSubcommand
    /\ level' = 2 /\ sub' = Token[1] /\ pos' = 1
    /\ rest' = Tail(rest)
    /\ found' = [found EXCEPT ![2] = Nothing(cmd.variants[Token[1]])]
    /\ UNCHANGED <<emitVars, phase, opt, inVec, escaped>>

\* "--"; an option before it stays without a value.
ParseEscape ==
    /\ Parsing /\ ~escaped /\ Token = Escape
    /\ \/ opt # 0 /\ Reject
       \/ /\ opt = 0
          /\ escaped' = TRUE
          /\ rest' = Tail(rest)
          /\ UNCHANGED <<emitVars, phase, level, sub, opt, inVec, pos, found>>

\* A flag, with its value after "=" or still to come.
IsFlag == ~escaped /\ Token # Escape /\ Token # <<>> /\ Token[1] \in Hyphened
Attached == Len(Token) > 1 /\ Token[2] = "="
ParseFlag ==
    /\ Parsing /\ IsFlag
    /\ LET known == {k \in DOMAIN Fields : Fields[k].flag = Token[1] /\ ~Fields[k].skip}
           fits(k) == /\ opt = 0 /\ ~Full(k)
                      /\ TakesNone(Fields[k]) => Len(Token) = 1
                      /\ Fields[k].equals => Attached
                      /\ Len(Token) > 1 => Attached
       IN \/ (\A k \in known : ~fits(k)) /\ Reject
          \/ \E k \in known :
                /\ fits(k)
                /\ inVec' = FALSE
                /\ \/ /\ TakesNone(Fields[k])
                      /\ Give(k, <<>>) /\ UNCHANGED <<opt, pos, escaped>>
                   \/ /\ ~TakesNone(Fields[k]) /\ Attached
                      /\ Give(k, SubSeq(Token, 3, Len(Token))) /\ UNCHANGED <<opt, pos, escaped>>
                   \/ /\ ~TakesNone(Fields[k]) /\ ~Attached
                      /\ opt' = k /\ rest' = Tail(rest)
                      /\ UNCHANGED <<emitVars, phase, level, sub, pos, escaped, found>>

IsWord == ~NamesSubcommand /\ ~IsFlag /\ (escaped \/ Token # Escape)

ParseOption ==
    /\ Parsing /\ IsWord /\ opt # 0
    /\ Give(opt, Token)
    /\ opt' = 0
    /\ UNCHANGED <<inVec, pos, escaped>>

\* Once escaped, the last positional is the one with that name.
ParsePositional ==
    /\ Parsing /\ IsWord /\ opt = 0
    /\ LET ps == Positionals(Fields)
           n == IF escaped /\ HasLast THEN Len(ps) ELSE pos
           fits == n <= Len(ps) /\ ~Full(ps[n]) /\ (Fields[ps[n]].place = "last" => escaped)
       IN \/ ~fits /\ Reject
          \/ /\ fits
             /\ Give(ps[n], Token)
             /\ inVec' = TakesMany(Fields[ps[n]])
             /\ pos' = IF TakesMany(Fields[ps[n]]) THEN n ELSE n + 1
             /\ escaped' = (escaped \/ Fields[ps[n]].place = "trailing")
             /\ UNCHANGED opt

\* What is required is there, and no option is left without its value.
Complete ==
    /\ opt = 0
    /\ \A k \in DOMAIN cmd.fields :
          /\ cmd.fields[k].shape = "one" => found[1][k] # <<>>
          /\ cmd.fields[k].shape = "sub" => sub # "none"
    /\ sub # "none" => \A k \in DOMAIN cmd.variants[sub] :
          cmd.variants[sub][k].shape = "one" => found[2][k] # <<>>

ParseEnd ==
    /\ phase = "parse" /\ rest = <<>>
    /\ phase' = IF Complete THEN "accepted" ELSE "rejected"
    /\ UNCHANGED <<emitVars, parseVars>>

Stop == phase \in {"accepted", "rejected", "diverted"} /\ UNCHANGED vars

Next ==
    \/ Emit \/ SendFrame \/ RunProcess
    \/ ParseSubcommand \/ ParseEscape \/ ParseFlag \/ ParseOption \/ ParsePositional
    \/ ParseEnd \/ Stop

Spec == Init /\ [][Next]_vars

\* FromArgMatches: the value of a field from what was found for it.
ParsedField(f, items) ==
    CASE f.shape = "bool" -> [some |-> (items # <<>>) # (f.action = "set_false"), items |-> <<>>]
      [] f.shape \in {"option", "optvec"} -> [some |-> items # <<>>, items |-> items]
      [] f.shape \in {"one", "vec"} -> [some |-> TRUE, items |-> items]
      [] f.shape \in {"sub", "optsub"} ->
             [some |-> sub # "none", items |-> IF sub = "none" THEN <<>> ELSE <<<<sub>>>>]

Parsed ==
    [vals |-> [k \in DOMAIN cmd.fields |-> ParsedField(cmd.fields[k], found[1][k])],
     inner |-> IF sub = "none" THEN <<>>
               ELSE [k \in DOMAIN cmd.variants[sub] |->
                        ParsedField(cmd.variants[sub][k], found[2][k])],
     group |-> \E k \in cmd.group : found[1][k] # <<>>]

(***************************************************************************)
(* Which values come through.                                              *)
(***************************************************************************)
Strings(f, v) == IF v.some THEN Joined(f, v.items) ELSE <<>>
Written(k) ==
    /\ k \in cmd.group => value.group
    /\ emit_field(k) # <<>>
IsSub(k) == cmd.fields[k].shape \in {"sub", "optsub"}
Default(f) == ParsedField(f, <<>>)

\* A field by itself: skip loses what is not the default, Some of an empty Vec
\* is read as None, a delimiter inside a string cuts it.
Keeps(f, v) ==
    /\ f.skip => v = Default(f)
    /\ ~f.skip /\ f.shape = "optvec" /\ v.some => v.items # <<>>
    /\ ~f.skip /\ f.delimiter => \A k \in DOMAIN v.items : Delimiter \notin Range(v.items[k])

\* No string that clap reads as a flag or "--": those after a separator or
\* attached by "=" are not looked at.
NoHyphen(f, v) ==
    \/ f.skip \/ f.action # "default" \/ f.shape = "bool" \/ separator(f)
    \/ f.flag # "" /\ f.equals
    \/ \A k \in DOMAIN Strings(f, v) :
           Strings(f, v)[k] # <<>> => Strings(f, v)[k][1] \notin Hyphened

\* A positional is in its place if those before it are there; the one marked
\* last needs no others.
InPlace(fields, vals) ==
    \A k, m \in DOMAIN fields :
       /\ k < m /\ positional(fields[k]) /\ positional(fields[m])
       /\ fields[m].place # "last" /\ Strings(fields[m], vals[m]) # <<>>
       => Strings(fields[k], vals[k]) # <<>>

\* What comes after a separator belongs to that positional.
SeparatorEnds(fields, vals) ==
    \A k, m \in DOMAIN fields :
       k < m /\ separator(fields[k]) /\ Strings(fields[k], vals[k]) # <<>>
       => emit_arg(fields[m], vals[m]) = <<>>

Level(fields, vals) ==
    /\ \A k \in DOMAIN fields : Keeps(fields[k], vals[k]) /\ NoHyphen(fields[k], vals[k])
    /\ InPlace(fields, vals)
    /\ SeparatorEnds(fields, vals)

\* The fields that are not a subcommand, for the rules of a level.
Args == {k \in DOMAIN cmd.fields : ~IsSub(k)}
ArgFields == [k \in Args |-> cmd.fields[k]]
ArgVals == [k \in Args |-> value.vals[k]]

\* A subcommand ends the fields, is not swallowed by a separator or by a Vec of
\* positionals right before it, and no other positional begins with its name.
SubcommandFits ==
    /\ \A k, m \in DOMAIN cmd.fields :
          /\ IsSub(k) /\ Written(k) /\ k < m => ~Written(m)
          /\ IsSub(m) /\ Written(m) /\ k < m /\ Written(k) =>
                /\ ~separator(cmd.fields[k])
                /\ positional(cmd.fields[k]) /\ TakesMany(cmd.fields[k]) =>
                      \E n \in k + 1 .. m - 1 : Written(n)
    /\ \A k \in Args :
          LET f == cmd.fields[k]
              s == Strings(f, value.vals[k])
          IN positional(f) /\ ~separator(f) /\ s # <<>> =>
                ~(Len(s[1]) = 1 /\ s[1][1] \in DOMAIN cmd.variants)

\* An Option<T> that is flattened is Some only if one of its fields is written.
GroupShows == value.group => \E k \in cmd.group : Written(k)

Regular ==
    /\ Level(ArgFields, ArgVals)
    /\ \A k \in DOMAIN cmd.fields :
          IsSub(k) /\ value.vals[k].some =>
             Level(cmd.variants[value.vals[k].items[1][1]], value.inner)
    /\ SubcommandFits
    /\ GroupShows

\* A "--" in front of trailing arguments is the separator, and theirs the value.
ReadsEscapeTwice ==
    \E k, m \in DOMAIN cmd.fields :
       /\ k < m /\ positional(cmd.fields[k]) /\ cmd.fields[m].place = "trailing"
       /\ value.vals[k].items = <<Escape>>

\* ToArgv is "an inverse serializer for the original Rust clap type"
\* (ARCHITECTURE.md:28) for exactly the regular values: what the plugin parses
\* is what the host had, on both ways to the plugin.  Any other value is
\* refused or changed; a process also takes "__outboard" in the first place for
\* a control request, and parses nothing.
InverseOfParse ==
    phase \in {"accepted", "rejected"} =>
        /\ Regular => phase = "accepted" /\ Parsed = value
        /\ phase = "accepted" /\ Parsed = value => Regular \/ ReadsEscapeTwice

\* A value without positionals and subcommands is changed only by a field that
\* cannot keep it or a group that does not show: the rest arrives or is refused.
FlagsFailLoudly ==
    /\ phase = "accepted"
    /\ \A k \in DOMAIN cmd.fields : cmd.fields[k].flag # ""
    /\ \A k \in DOMAIN cmd.fields : Keeps(cmd.fields[k], value.vals[k])
    /\ GroupShows
    => Parsed = value
=============================================================================
