--------------------------- MODULE ApplicationFlags ---------------------------
(***************************************************************************)
(* The flags of the application, pkg/app/application_flags.go.            *)
(*                                                                         *)
(* "-p key=value" may be given any number of times; keyValueFlags.Set      *)
(* splits each value at its first '=' into a map, a later key replacing an *)
(* earlier one.  RegisterServerArgs turns the flags back into arguments     *)
(* ("-v", then "-p key=value" for every key of the map in Go's random map  *)
(* order) for the daemon process that a start or restart launches, which    *)
(* parses them again with its flag.FlagSet.                                *)
(*                                                                         *)
(* Strings are sequences of characters from a small alphabet that contains *)
(* '='; flag tokens are sequences too, so that they compare with values.   *)
(***************************************************************************)
EXTENDS Naturals, Sequences, TLC
LOCAL INSTANCE SequencesExt

CONSTANTS
    Chars,      \* the characters keys and values are made of
    MaxLen,     \* bound on the length of a -p value
    MaxFlags    \* bound on the number of -p flags on a command line

ASSUME "=" \in Chars /\ "-" \notin Chars

Str == BoundedSeq(Chars, MaxLen)
FlagP == <<"-", "p">>
FlagV == <<"-", "v">>
NoFlags == [k \in {} |-> <<>>]

\* keyValueFlags.Set(value): up to the first '=' is the key, the rest the
\* value; without '=' the whole text is a key with an empty value.
KVSet(f, value) ==
    LET i == SelectInSeq(value, LAMBDA ch : ch = "=")
    IN  IF i = 0 THEN (value :> <<>>) @@ f
        ELSE (SubSeq(value, 1, i - 1) :> SubSeq(value, i + 1, Len(value))) @@ f

\* The map after fs.Parse of a command line with these -p values.
PropsOf(vals) == FoldLeft(KVSet, NoFlags, vals)

\* Seeded bug: the verbose flag is not passed on.
ServerArgsNoVerbose(verbose, props) ==
    LET pOf(k) == <<FlagP, k \o <<"=">> \o props[k]>>
    IN  { FlattenSeq([i \in 1..Len(order) |-> pOf(order[i])])
            : order \in SetToSeqs({k \in DOMAIN props : k # <<>>}) }

\* RegisterServerArgs: "-v" when verbose, then "-p key=value" for every
\* key but the empty one, in any order the range over the map yields.
ServerArgs(verbose, props) ==
    LET pOf(k) == <<FlagP, k \o <<"=">> \o props[k]>>
    IN  { (IF verbose THEN <<FlagV>> ELSE <<>>)
            \o FlattenSeq([i \in 1..Len(order) |-> pOf(order[i])])
            : order \in SetToSeqs({k \in DOMAIN props : k # <<>>}) }

\* flag.FlagSet.Parse in the new process with -v and -p registered by
\* RegisterFlags; parsing stops at the first argument that is not a flag.
RECURSIVE ParseArgs(_, _)
ParseArgs(args, st) ==
    CASE args = <<>> -> st
      [] Head(args) = FlagV ->
            ParseArgs(Tail(args), [st EXCEPT !.verbose = TRUE])
      [] Head(args) = FlagP /\ Len(args) >= 2 ->
            ParseArgs(Tail(Tail(args)), [st EXCEPT !.props = KVSet(st.props, args[2])])
      [] OTHER -> st

\* A property named by the empty key cannot be looked up by name.
Named(props) == [k \in DOMAIN props \ {<<>>} |-> props[k]]

\* The arguments RegisterServerArgs builds parse back into the same verbose
\* flag and the same named properties, for every -p command line and
\* every map order.
FlagsRoundTrip ==
    \A verbose \in BOOLEAN, vals \in BoundedSeq(Str, MaxFlags) :
        LET props == PropsOf(vals)
        IN  \A args \in ServerArgs(verbose, props) :
                ParseArgs(args, [verbose |-> FALSE, props |-> NoFlags])
                  = [verbose |-> verbose, props |-> Named(props)]

=============================================================================
