------------------------------- MODULE MCMain -------------------------------
(* Model checking of Main: a few command lines of every kind. *)
EXTENDS Main

Flag(o)     == [opt |-> o, arg |-> NoArg]
With(o, a)  == [opt |-> o, arg |-> a]
Line(o, f)  == [opts |-> o, file |-> f]

(* No option that is passed on has an argument. *)
MCCmdLines ==
    {Line(<<>>, FALSE),
     Line(<<Flag("b"), With("e", "m1")>>, TRUE),
     Line(<<With("e", "m1"), Flag("h"), With("e", "m2")>>, FALSE),
     Line(<<With("e", "m1"), With("e", "m2"), Flag("u"), With("e", "m3")>>, TRUE)}

(* -w with a worksheet: an entry more than was counted. *)
MCWithArgument == {Line(<<With("w", "sheet")>>, FALSE), Line(<<With("w", "sheet"), With("f", "dir")>>, TRUE)}
=============================================================================
