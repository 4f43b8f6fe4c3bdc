--------------------------- MODULE MCAnnotations ---------------------------
(* Annotations over four addresses, with the calls that matter for each kind. *)
EXTENDS Annotations, TLC

MCCalls == [
    function |-> {Call("FunctionAdd", 0, 0, 0, 0, FALSE), Call("FunctionAdd", 0, 1, 0, 0, TRUE),
                  Call("FunctionAdd", 2, 2, 0, 0, FALSE), Call("FunctionDelete", 1, 1, 0, 0, FALSE),
                  Call("FunctionDelRange", 0, 2, 0, 0, FALSE), Call("Clear", 0, 0, 0, 0, FALSE),
                  Call("CacheLoad", 0, 0, 0, 0, FALSE)},
    color    |-> {Call("AddressColorSetRange", 0, 3, 0, 1, TRUE), Call("AddressColorSetRange", 1, 1, 0, 2, FALSE),
                  Call("AddressColorSetRange", 1, 2, 0, 1, FALSE), Call("AddressColorDelete", 2, 2, 0, 0, FALSE),
                  Call("AddressColorDelRange", 0, 1, 0, 0, TRUE)},
    loop     |-> {Call("LoopAdd", 0, 3, 0, 0, FALSE), Call("LoopAdd", 0, 1, 0, 0, FALSE),
                  Call("LoopAdd", 0, 2, 0, 0, FALSE),
                  Call("LoopDelete", 1, 1, 0, 0, FALSE), Call("LoopDeleteRange", 0, 0, 0, 0, FALSE)}]

MCCallbackCalls == [
    function |-> {Call("FunctionAdd", 2, 2, 0, 0, FALSE), Call("FunctionDelRange", 0, 2, 0, 0, TRUE)},
    color    |-> {Call("AddressColorSetRange", 1, 2, 0, 2, FALSE)},
    loop     |-> {Call("LoopAdd", 1, 2, 0, 0, FALSE)}]

MCSaved == [function |-> <<Item(0, 0, 0, FALSE), Item(1, 2, 0, TRUE)>>,
            color |-> <<>>, loop |-> <<>>]

MCMaxCalls == [function |-> 3, color |-> 3, loop |-> 3]

Sym == Permutations(Threads)
=============================================================================
