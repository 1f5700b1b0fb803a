--------------------------- MODULE Edger8rSamples ----------------------------
(***************************************************************************)
(* The functions of the SDK's samples, as tables for module EnclaveBridge: *)
(* App/Edger8rSyntax and Enclave/Edger8rSyntax with their EDL files, and   *)
(* the two files Libc.cpp.  A parameter list has one entry for each array  *)
(* element, for a string or a scalar, and for a return value.  Contents    *)
(* are told apart by who wrote them: "caller" is what the caller passed at *)
(* this place, "callee" what the function's comments say it shall become.  *)
(***************************************************************************)
EXTENDS Naturals, Sequences

AllStatus == {"SGX_SUCCESS", "SGX_ERROR_OUT_OF_MEMORY", "SGX_ERROR_UNEXPECTED",
                    "SGX_ERROR_ECALL_NOT_ALLOWED", "SGX_ERROR_ENCLAVE_LOST",
                    "SGX_ERROR_ENCLAVE_CRASHED"}

\* The operations of a body, see EnclaveBridge.
Expect(on, is)  == [op |-> "test", what |-> "value", on |-> on, is |-> is]
Returned(on, is) == [op |-> "test", what |-> "result", on |-> on, is |-> is]
Lies(where, on) == [op |-> "test", what |-> where, on |-> on, is |-> "zero"]
Set(on, is)  == [op |-> "write", on |-> on, is |-> is]
CallFor(f, args, ok) == [op |-> "call", fn |-> f, args |-> args, ok |-> ok]
Call(f, args)  == CallFor(f, args, {"SGX_SUCCESS"})
New == [op |-> "malloc"]
Delete   == [op |-> "free"]

\* Declarations.
Public(params, body) ==
    [side |-> "enclave", public |-> TRUE, allow |-> {}, params |-> params, body |-> body]
Private(params, body) ==
    [side |-> "enclave", public |-> FALSE, allow |-> {}, params |-> params, body |-> body]
Ocall(allow, params, body) ==
    [side |-> "app", public |-> FALSE, allow |-> allow, params |-> params, body |-> body]
Sample(body) == Ocall({}, <<>>, body)

Times(n, x) == [i \in 1..n |-> x]
------------------------------------------------------------------------------
\* for (i = 0; i < n; i++) { assert(arr[i] == ..); arr[i] = n - 1 - i; }
Reverse(n, expected) ==
    [k \in 1..2 * n |-> IF k % 2 = 1 THEN Expect({k \div 2 + 1}, expected)
                                     ELSE Set(k \div 2, "callee")]

ArrayEcalls == [
    ecall_array_user_check |->
        Public(Times(4, "user_check"), <<Lies("outside", 1..4)>> \o Reverse(4, "caller")),
    ecall_array_in     |-> Public(Times(4, "in"), Reverse(4, "caller")),
    ecall_array_out    |-> Public(Times(4, "out"), Reverse(4, "zero")),
    ecall_array_in_out |-> Public(Times(4, "inout"), Reverse(4, "caller")),
    ecall_array_isary  |->
        Public(Times(10, "user_check"), <<Lies("outside", 1..10)>> \o Reverse(10, "caller"))]

edger8r_array_attributes == Sample(<<
    Call("ecall_array_user_check", Times(4, "caller")), Returned(1..4, "callee"),
    Call("ecall_array_in", Times(4, "caller")),         Returned(1..4, "caller"),
    Call("ecall_array_out", Times(4, "caller")),        Returned(1..4, "callee"),
    Call("ecall_array_in_out", Times(4, "caller")),     Returned(1..4, "callee"),
    Call("ecall_array_isary", Times(10, "caller")),     Returned(1..10, "callee")>>)
------------------------------------------------------------------------------
\* int printf(const char* fmt, ...) of the enclave ignores the OCALL's status.
Printf == CallFor("ocall_print_string", <<"caller">>, AllStatus)

\* The first 12 bytes of val, the other bytes, sz, and the returned length.
ecall_pointer_user_check ==
    Public(<<"user_check", "user_check", "value", "return">>,
           <<Lies("outside", {1, 2}), Printf, Set(1, "callee"), Set(4, "callee")>>)

\* The ECALLs on an int.
IntEcalls == [
    ecall_pointer_in     |-> Public(<<"in">>, <<Lies("within", {1}), Set(1, "callee")>>),
    ecall_pointer_out    |-> Public(<<"out">>, <<Lies("within", {1}), Expect({1}, "zero"),
                                                 Set(1, "callee")>>),
    ecall_pointer_in_out |-> Public(<<"inout">>, <<Lies("within", {1}), Set(1, "callee")>>)]

\* The ECALLs on a string, a buffer or an array.
BufferEcalls == [
    ecall_pointer_string |-> Public(<<"inout">>, <<Set(1, "callee")>>),
    ecall_pointer_string_const |-> Public(<<"in">>, <<New, Delete>>),
    ecall_pointer_size   |-> Public(<<"inout", "value">>, <<Set(1, "callee")>>),
    ecall_pointer_count  |-> Public(Times(10, "inout") \o <<"value">>,
                                    [k \in 1..10 |-> Set(11 - k, "callee")]),
    ecall_pointer_isptr_readonly |-> Public(<<"in", "value">>, <<Set(1, "callee")>>)]

ocall_pointer_attr == Public(<<>>, <<
    Call("ocall_pointer_user_check", <<"zero">>),
    Call("ocall_pointer_in", <<"zero">>),     Returned({1}, "zero"),
    Call("ocall_pointer_out", <<"zero">>),    Returned({1}, "callee"),
    Call("ocall_pointer_in_out", <<"zero">>), Returned({1}, "callee")>>)

\* The App's functions with pointers; the pointer of a [user_check] parameter is
\* compared with NULL and not used.
PointerOcalls == [
    ocall_pointer_user_check |-> Ocall({}, <<"user_check">>, <<>>),
    ocall_pointer_in         |-> Ocall({}, <<"in">>, <<Set(1, "callee")>>),
    ocall_pointer_out        |-> Ocall({}, <<"out">>, <<Set(1, "callee")>>),
    ocall_pointer_in_out     |-> Ocall({}, <<"inout">>, <<Set(1, "callee")>>)]

edger8r_pointer_attributes == Sample(<<
    Call("ecall_pointer_user_check", <<"caller", "caller", "caller", "zero">>),
    Returned({1}, "callee"),
    Call("ecall_pointer_in", <<"zero">>),               Returned({1}, "zero"),
    Call("ecall_pointer_out", <<"zero">>),              Returned({1}, "callee"),
    Call("ecall_pointer_in_out", <<"zero">>),           Returned({1}, "callee"),
    Call("ocall_pointer_attr", <<>>),
    Call("ecall_pointer_string", <<"caller">>),         Returned({1}, "callee"),
    Call("ecall_pointer_string_const", <<"caller">>),   Returned({1}, "caller"),
    Call("ecall_pointer_size", <<"caller", "caller">>), Returned({1}, "callee"),
    Call("ecall_pointer_isptr_readonly", <<"caller", "caller">>), Returned({1}, "caller"),
    Call("ecall_pointer_count", Times(11, "caller")),   Returned(1..10, "callee")>>)

ocall_print_string == Ocall({}, <<"in">>, <<>>)
------------------------------------------------------------------------------
\* A value that is compared with the constant the App passes.
ByValue == Public(<<"value">>, <<Expect({1}, "caller")>>)

\* The two members of the union that are written share their memory.
TypeEcalls == [
    ecall_type_char    |-> ByValue,
    ecall_type_int     |-> ByValue,
    ecall_type_float   |-> ByValue,
    ecall_type_double  |-> ByValue,
    ecall_type_size_t  |-> ByValue,
    ecall_type_wchar_t |-> ByValue,
    ecall_type_struct  |-> Public(<<"value", "value">>, <<Expect({1}, "caller"),
                                                          Expect({2}, "caller")>>),
    ecall_type_enum_union |->
        Public(<<"value", "user_check">>,
               <<Lies("outside", {2}), Set(2, "overwritten"), Set(2, "callee"),
                 Expect({1}, "caller")>>)]

edger8r_type_attributes == Sample(<<
    Call("ecall_type_char", <<"caller">>),    Call("ecall_type_int", <<"caller">>),
    Call("ecall_type_float", <<"caller">>),   Call("ecall_type_double", <<"caller">>),
    Call("ecall_type_size_t", <<"caller">>),  Call("ecall_type_wchar_t", <<"caller">>),
    Call("ecall_type_struct", <<"caller", "caller">>),
    Call("ecall_type_enum_union", <<"caller", "zero">>), Returned({2}, "callee")>>)
------------------------------------------------------------------------------
FunctionEcalls == [
    ecall_function_public  |-> Public(<<>>, <<Call("ocall_function_allow", <<>>)>>),
    ecall_function_private |-> Private(<<"return">>, <<Set(1, "callee")>>)]

ocall_function_allow == Ocall({"ecall_function_private"}, <<>>, <<
    Call("ecall_function_private", <<"zero">>), Returned({1}, "callee")>>)

edger8r_function_attributes == Sample(<<
    Call("ecall_function_public", <<>>),
    CallFor("ecall_function_private", <<"zero">>, {"SGX_ERROR_ECALL_NOT_ALLOWED"}),
    Returned({1}, "zero")>>)
------------------------------------------------------------------------------
\* sgx_cpuid of the SDK asks the App, cpuinfo is an [out] array; the leaf is a
\* value.
LibcEcalls == [
    ecall_malloc_free |-> Public(<<>>, <<New, Delete>>),
    ecall_sgx_cpuid   |->
        Public(<<"out", "value">>,
               <<Call("sgx_oc_cpuidex", <<"zero">>), Set(1, "callee")>>)]

sgx_oc_cpuidex == Ocall({}, <<"out">>, <<Set(1, "callee")>>)

ecall_libc_functions == Sample(<<
    Call("ecall_malloc_free", <<>>), Call("ecall_sgx_cpuid", <<"zero", "caller">>)>>)
==============================================================================
