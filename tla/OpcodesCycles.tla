--------------------------- MODULE OpcodesCycles ---------------------------
(***************************************************************************)
(* The count of machine cycles a handler returns (include/                 *)
(* OpcodesCycles.hpp and the return statements of the handlers).  cycle    *)
(* discards it; the count of a conditional call or return depends on       *)
(* whether it is taken.                                                    *)
(***************************************************************************)
EXTENDS OpcodeTable

\* Seeded fault: a conditional return shares the code, and the count, of RET.
ReturnCycles_AsRET(taken) == IF taken THEN 10 ELSE 5

ReturnCycles(taken) == IF taken THEN 11 ELSE 5

CallCycles(taken) == IF taken THEN 17 ELSE 11

Cycles(i, taken) ==
  CASE i.op \in {"NOP", "STC", "CMA", "CMC", "DAA", "EI", "DI", "RLC_RRC_RAL_RAR_R",
                 "ADD_ADC_SUB_SBB_CMP_R", "ANA_ORA_XRA_R"} -> 4
    [] i.op \in {"MOV_R_R", "INR_DCR_R", "INX_DCX_RR", "XCHG", "SPHL", "PCHL"} -> 5
    [] i.op \in {"MOV_M_R", "MOV_R_M", "MVI_R_d8", "STAX_RR", "LDAX_RR", "HLT",
                 "ADD_ADC_SUB_SBB_CMP_M", "ADI_ACI_SUI_SBI_CPI_d8",
                 "ANA_ORA_XRA_M", "ANI_ORI_XRI_d8"} -> 7
    [] i.op \in {"INR_DCR_M", "MVI_M_d8", "LXI_RR_d16", "DAD_RR", "POP_RR", "JMP_a16",
                 "conditionalJMP_a16", "RET", "IN_d8", "OUT_d8"} -> 10
    [] i.op \in {"PUSH_RR", "RST_N"} -> 11
    [] i.op \in {"STA_a16", "LDA_a16"} -> 13
    [] i.op \in {"SHLD_a16", "LHLD_a16"} -> 16
    [] i.op = "CALL_a16" -> 17
    [] i.op = "XTHL" -> 18
    [] i.op = "conditionalRet" -> ReturnCycles(taken)
    [] i.op = "conditionalCall_a16" -> CallCycles(taken)
=============================================================================
