------------------------------ MODULE MCMachine ------------------------------
(***************************************************************************)
(* A small instance of Machine, drawn on terminals of several sizes.       *)
(***************************************************************************)
EXTENDS Layout, MCPrograms

\* The smallest terminal, sizes around those at which a division or a maximum
\* changes, and large ones.
Screen(rows, columns) == [rows |-> rows, columns |-> columns]
MCScreens ==
  {Screen(18, 60), Screen(18, 83), Screen(26, 84), Screen(28, 65), Screen(29, 80),
   Screen(61, 121)}
=============================================================================
