--------------------------- MODULE MCLocalVariables ---------------------------
EXTENDS LocalVariables

Ways == {"gpr", "fpr", "vmx", "vmx64", "inline"}
Functions == [way : Ways, k : {0, 1}]
AllOptions == {"skip_lr", "ctr", "cr", "non_argument", "non_volatile"}

HelperOrder == <<"restGpr14", "saveGpr14", "saveFpr14", "restFpr14",
                 "saveVmx14", "saveVmx64", "restVmx14", "restVmx64">>

First4 == <<"decoy", "main", "f", "g", "last">> \o HelperOrder
Last4 == HelperOrder \o <<"last", "g", "f", "main", "decoy">>

\* Every way to save registers and every set of options; every decoy, before and
\* after the helpers, with and without a configured address.
MCPrograms ==
  [main : Functions, f : Functions, leaf : {"counts"}, decoy : {"none"}, order : {First4},
   configured : {{}}, options : {{}, {"non_volatile"}, {"non_argument"}, {"non_argument", "non_volatile"}, AllOptions}]
  \cup
  [main : [way : {"gpr", "fpr"}, k : {0}], f : [way : {"gpr"}, k : {1}], leaf : {"counts", "compares", "chains"},
   decoy : {"none", "words", "setjmp", "gap"}, order : {First4, Last4},
   configured : {{}, {"saveFpr14"}}, options : SUBSET (AllOptions \ {"skip_lr"})]
===============================================================================
