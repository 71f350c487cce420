---------------------------- MODULE EpcRegistry ----------------------------
(***************************************************************************)
(* The interfaces a listener knows.  epc__add_interface appends to a table *)
(* and sorts it, and the functions of the interface in place; the lookups  *)
(* of a request walk through the sorted tables and stop at the first name  *)
(* that is greater than the one they look for.  Names are numbers in the   *)
(* order of strcmp.                                                        *)
(***************************************************************************)
EXTENDS Naturals, Sequences, Functions

CONSTANTS
  Interface,    \* the interfaces a listener may be built with
  NameOf,       \* NameOf[i]: name of interface i
  FunctionsOf,  \* FunctionsOf[i]: names of its functions, in the order of the IDL
  Null,         \* no interface, no function
  Name,         \* names that requests may ask for
  MaxAdded      \* bound: calls of epc__add_interface

ASSUME RegistryAssumption ==
  /\ NameOf \in [Interface -> Nat]
  /\ \A i, j \in Interface : NameOf[i] = NameOf[j] => i = j
  /\ FunctionsOf \in [Interface -> Seq(Nat)]
  /\ Null \notin Interface /\ Null \notin Nat
  /\ Name \subseteq Nat
  /\ MaxAdded \in Nat

VARIABLES
  proc,         \* where epc__list_main, and in it a lookup, is
  status,       \* what the last epc__add_interface returned
  interfaces,   \* epc__info->interfaces
  functions,    \* functions[i]: the static array of interface i
  noBuffer,     \* functions with a parameter whose buffer could not be allocated
  registered,   \* history: interfaces epc__add_interface was called with
  wanted,       \* names the request asks for
  inr, fnr,     \* positions of the lookups in their tables
  interface, function, error    \* epc__call

tables == <<status, interfaces, functions, noBuffer, registered>>
call == <<interface, function, error>>
registryVars == <<proc, tables, wanted, inr, fnr, call>>

Request == [interface : Name, function : Name]

-----------------------------------------------------------------------------
\* t is s sorted by qsort, which leaves elements with equal keys in any order.
Rearranges(p, n) == p \in [1 .. n -> 1 .. n] /\ Range(p) = 1 .. n
Sorted(keys) == \A a, b \in 1 .. Len(keys) : a < b => keys[a] <= keys[b]
Keys(t) == [k \in 1 .. Len(t) |-> NameOf[t[k]]]

RegistryInit ==
  /\ proc = "adding" /\ status = "OK"
  /\ interfaces = <<>> /\ functions = FunctionsOf
  /\ noBuffer = {} /\ registered = {}
  /\ wanted = Null
  /\ inr = 1 /\ fnr = 1
  /\ interface = Null /\ function = Null /\ error = "OK"

\* epc__add_interface.  An interface without functions fails an assertion.
\* realloc may fail, and malloc for any of the parameters, when the other
\* buffers are allocated nevertheless.
OutOfMemory ==
  /\ proc = "adding" /\ status = "OK"
  /\ status' = "MEMORY_ERROR"
  /\ UNCHANGED <<proc, interfaces, functions, noBuffer, registered, wanted, inr, fnr, call>>

\* Mutant of AddInterface: the table of interfaces is not sorted again.
AddInterfaceUnsorted(i) ==
  /\ proc = "adding" /\ status = "OK" /\ Len(interfaces) < MaxAdded
  /\ registered' = registered \cup {i}
  /\ interfaces' = Append(interfaces, i)
  /\ UNCHANGED <<proc, status, functions, noBuffer, wanted, inr, fnr, call>>

\* Mutant of AddInterface: a malloc that fails is not reported.
AddInterfaceIgnoresMalloc(i) ==
  /\ proc = "adding" /\ status = "OK" /\ Len(interfaces) < MaxAdded
  /\ registered' = registered \cup {i}
  /\ interfaces' = Append(interfaces, i)
  /\ \E failed \in SUBSET Range(functions[i]) : noBuffer' = noBuffer \cup failed
  /\ UNCHANGED <<proc, status, functions, wanted, inr, fnr, call>>

AddInterface(i) ==
  /\ proc = "adding" /\ status = "OK" /\ Len(interfaces) < MaxAdded
  /\ FunctionsOf[i] # <<>>
  /\ registered' = registered \cup {i}
  /\ LET n == Len(interfaces) + 1
         table == Append(interfaces, i)
         m == Len(functions[i])
     IN  /\ \E p \in [1 .. m -> 1 .. m] :
              /\ Rearranges(p, m)
              /\ functions' = [functions EXCEPT ![i] = [k \in 1 .. m |-> functions[i][p[k]]]]
              /\ Sorted(functions'[i])
         /\ \E p \in [1 .. n -> 1 .. n] :
              /\ Rearranges(p, n)
              /\ interfaces' = [k \in 1 .. n |-> table[p[k]]]
              /\ Sorted(Keys(interfaces'))
  /\ \E failed \in SUBSET Range(functions[i]) :
       /\ noBuffer' = noBuffer \cup failed
       /\ status' = IF failed = {} THEN "OK" ELSE "MEMORY_ERROR"
  /\ UNCHANGED <<proc, wanted, inr, fnr, call>>

\* epc__list_main goes on when every interface was added, or ends.
StartServing ==
  /\ proc = "adding"
  /\ proc' = IF status = "OK" THEN "serving" ELSE "ended"
  /\ UNCHANGED <<tables, wanted, inr, fnr, call>>

-----------------------------------------------------------------------------
\* A request is received: epc__lookup_interface starts, with
\* epc__call->function NULL since the request was received.
Lookup(request) ==
  /\ proc \in {"serving", "looked_up"} /\ interfaces # <<>>
  /\ proc' = "interface" /\ wanted' = request /\ inr' = 1
  /\ interface' = Null /\ function' = Null /\ error' = "OK"
  /\ UNCHANGED <<tables, fnr>>

\* The loop ends and epc__lookup_function starts.
\* Mutant of ToFunctions: it starts before the table.
ToFunctionsFromZero == proc' = "function" /\ fnr' = 0 /\ function' = Null
ToFunctions == proc' = "function" /\ fnr' = 1 /\ function' = Null
Here == NameOf[interfaces[inr]]

NextInterface ==
  /\ proc = "interface" /\ inr <= Len(interfaces) /\ wanted.interface > Here
  /\ inr' = inr + 1
  /\ UNCHANGED <<proc, tables, wanted, fnr, call>>

InterfaceFound ==
  /\ proc = "interface" /\ inr <= Len(interfaces) /\ wanted.interface = Here
  /\ interface' = interfaces[inr] /\ UNCHANGED error
  /\ ToFunctions /\ UNCHANGED <<tables, wanted, inr>>

InterfacePassed == inr <= Len(interfaces) => wanted.interface < Here
InterfaceNotFound ==
  /\ proc = "interface" /\ InterfacePassed
  /\ error' = "INTERFACE_UNKNOWN" /\ UNCHANGED interface
  /\ ToFunctions /\ UNCHANGED <<tables, wanted, inr>>

NextFunction ==
  /\ proc = "function" /\ interface # Null
  /\ fnr <= Len(functions[interface]) /\ wanted.function > functions[interface][fnr]
  /\ fnr' = fnr + 1
  /\ UNCHANGED <<proc, tables, wanted, inr, call>>

FunctionFound ==
  /\ proc = "function" /\ interface # Null
  /\ fnr <= Len(functions[interface]) /\ wanted.function = functions[interface][fnr]
  /\ function' = functions[interface][fnr] /\ proc' = "looked_up"
  /\ UNCHANGED <<tables, wanted, inr, fnr, interface, error>>

\* The error of the interface is replaced by that of the function.
FunctionPassed ==
  interface # Null /\ fnr <= Len(functions[interface]) =>
    wanted.function < functions[interface][fnr]
FunctionNotFound ==
  /\ proc = "function" /\ FunctionPassed
  /\ error' = "FUNCTION_UNKNOWN" /\ proc' = "looked_up"
  /\ UNCHANGED <<tables, wanted, inr, fnr, interface, function>>

\* epc__done frees the tables, and what buffers there are.
FreeTables ==
  /\ proc \in {"serving", "looked_up", "ended"} /\ proc' = "done"
  /\ interfaces' = <<>> /\ noBuffer' = {} /\ registered' = {}
  /\ UNCHANGED <<status, functions, wanted, inr, fnr, call>>

RegistryNext ==
  \/ OutOfMemory
  \/ \E i \in Interface : AddInterface(i)
  \/ StartServing
  \/ \E request \in Request : Lookup(request)
  \/ NextInterface \/ InterfaceFound \/ InterfaceNotFound
  \/ NextFunction \/ FunctionFound \/ FunctionNotFound
  \/ FreeTables

RegistrySpec == RegistryInit /\ [][RegistryNext]_registryVars

-----------------------------------------------------------------------------
\* The types of the variables.
RegistryTypeOK ==
  /\ proc \in {"adding", "serving", "interface", "function", "looked_up", "ended", "done"}
  /\ status \in {"OK", "MEMORY_ERROR"}
  /\ interfaces \in Seq(Interface)
  /\ functions \in [Interface -> Seq(Nat)]
  /\ noBuffer \subseteq Nat
  /\ registered \subseteq Interface
  /\ wanted \in Request \cup {Null}
  /\ inr \in Nat \ {0} /\ fnr \in Nat \ {0}
  /\ interface \in Interface \cup {Null}
  /\ function \in Nat \cup {Null}
  /\ error \in {"OK", "INTERFACE_UNKNOWN", "FUNCTION_UNKNOWN"}

\* A request has a function exactly when it was added, by whatever order
\* the interfaces were added in, and it is the function of that name in the
\* interface of that name: the early exit skips nothing.
HasWanted(i) == NameOf[i] = wanted.interface /\ wanted.function \in Range(FunctionsOf[i])
LookupCorrect ==
  proc = "looked_up" =>
    /\ (error = "OK") <=> (\E i \in registered : HasWanted(i))
    /\ error = "OK" => interface \in registered /\ HasWanted(interface) /\ function = wanted.function

\* A listener serves only when every parameter of every function it may be
\* asked for has a buffer: an error in the middle is not lost.
ServesWithBuffers == proc \notin {"adding", "ended"} => noBuffer = {}

=============================================================================
