------------------------------ MODULE MCFileShare ------------------------------
(* Instances of FileShare for TLC: a manifest of two items.                    *)
EXTENDS FileShare

TwoItems == <<1, 2>>

\* Users who change their minds while anything fails; stanzas that get lost; a
\* browser that gets previews.
ThreeCases ==
  {[users |-> {"decline", "cancel"}, browsing |-> {}, faults |-> 1,
    kinds |-> {"disk", "session", "stream"}],
   [users |-> {"cancel"}, browsing |-> {}, faults |-> 1, kinds |-> {"loss"}],
   [users |-> {}, browsing |-> {"preview"}, faults |-> 1, kinds |-> {"stream"}]}

\* A browser that asks for originals: not a case of the run, see the README.
OriginalCase ==
  {[users |-> {}, browsing |-> {"original"}, faults |-> 0, kinds |-> {}]}
===============================================================================
