--------------------------- MODULE MCEnclaveBridge ---------------------------
(* Model checking of EnclaveBridge: all samples, any two after one another. *)
EXTENDS EnclaveBridge, Edger8rSamples, TLC

MCSamples == {"edger8r_array_attributes", "edger8r_pointer_attributes",
              "edger8r_type_attributes", "edger8r_function_attributes",
              "ecall_libc_functions"}

MCCode ==
    ArrayEcalls @@ IntEcalls @@ BufferEcalls @@ PointerOcalls @@ TypeEcalls
    @@ FunctionEcalls @@ LibcEcalls
    @@ [ecall_pointer_user_check    |-> ecall_pointer_user_check,
        ocall_pointer_attr          |-> ocall_pointer_attr,
        ocall_print_string          |-> ocall_print_string,
        ocall_function_allow        |-> ocall_function_allow,
        sgx_oc_cpuidex              |-> sgx_oc_cpuidex,
        edger8r_array_attributes    |-> edger8r_array_attributes,
        edger8r_pointer_attributes  |-> edger8r_pointer_attributes,
        edger8r_type_attributes     |-> edger8r_type_attributes,
        edger8r_function_attributes |-> edger8r_function_attributes,
        ecall_libc_functions        |-> ecall_libc_functions]

MCFunction == DOMAIN MCCode
==============================================================================
