-------------------------------- MODULE Office --------------------------------
(***************************************************************************)
(* The office's modules together: contracts and the schedules generated    *)
(* for them, policies and access cards, parking, bank accounts and meter   *)
(* readings. A request of any of them may fail after any statement.        *)
(***************************************************************************)
EXTENDS Contracts, AccessCards, Parking, BankAccounts, MeterReadings

officeVars == <<requestVars, contractVars, policyVars, cardVars, parkingVars,
                accountVars, meterVars>>

OfficeTypeOK ==
    /\ area \in Areas /\ ops \in 0..MaxOps[area]
    /\ ContractTypeOK /\ PolicyTypeOK /\ CardTypeOK /\ ParkingTypeOK
    /\ AccountTypeOK /\ MeterTypeOK

OfficeInit ==
    /\ RequestInit
    /\ ContractInit /\ PolicyInit /\ CardInit /\ ParkingInit /\ AccountInit /\ MeterInit

\* What the requests of each module leave alone.
BesidesContracts == UNCHANGED <<policyVars, cardVars, parkingVars, accountVars, meterVars>>
BesidesCards == UNCHANGED <<contractVars, parkingVars, accountVars, meterVars>>
BesidesParking == UNCHANGED <<contractVars, policyVars, cardVars, accountVars, meterVars>>
BesidesAccounts == UNCHANGED <<contractVars, policyVars, cardVars, parkingVars, meterVars>>
BesidesMeters == UNCHANGED <<contractVars, policyVars, cardVars, parkingVars, accountVars>>

ContractStep ==
    \/ \E r \in Requests :
        \/ \E a \in Apartments : OpenSigning(r, a)
        \/ \E n \in Residents \cup {NoRow} : SignContract(r, n)
        \/ \E c \in Contracts :
            \/ \E count \in Counts[area], percent \in Percents : OpenGeneration(r, c, count, percent)
            \/ OpenTermination(r, c)
        \/ ValidateContract(r) \/ GenerateSchedules(r)
        \/ \E end \in Ends[area] : Terminate(r, end)
    \/ \E c \in Contracts :
        \/ \E row \in HandRows : AddSchedule(c, row)
        \/ \E i \in DOMAIN plan[c] :
            \/ \E due \in Ends[area] \cup {NoRow}, amount \in (Rents[area] \cap Nat) \cup {NoRow} :
                 ChangeSchedule(c, i, due, amount)
            \/ DropSchedule(c, i)
        \/ \E status \in ContractStatus, n \in Residents \cup {NoRow}, new \in Amendments :
             UpdateContract(c, status, n, new)
    \/ \E a \in Apartments, row \in Edits : EditApartment(a, row)

PolicyStep ==
    \/ \E r \in Requests, from \in Days, limit \in Limits :
        \/ OpenPolicy(r, from, limit)
        \/ \E p \in Policies : OpenAmendment(r, p, from, limit)
    \/ \E r \in Requests :
        \/ CreatePolicy(r) \/ AmendPolicy(r)
    \/ Tick

CardStep ==
    \/ \E r \in Requests :
        \/ \E type \in CardTypes, number \in {NoRow, Padded + 1, ByHand} : OpenCard(r, type, number)
        \/ \E q \in CardRequests : OpenApproval(r, q) \/ OpenRejection(r, q)
        \/ \E k \in Cards :
            \/ \E status \in {"lost", "deactivated"} : OpenDeactivation(r, k, status)
            \/ OpenReactivation(r, k)
        \/ GenerateNumber(r) \/ ReadLimit(r) \/ CountCards(r)
        \/ InsertCard(r) \/ RefuseNumber(r)
        \/ ApproveRequest(r) \/ RejectRequest(r)
        \/ DeactivateCard(r) \/ ReactivateCard(r)
    \/ \E q \in CardRequests : RequestCard(q)
    \/ \E n \in LimitColumns : SetOverride(n)

ParkingStep ==
    \/ \E r \in Requests :
        \/ \E start \in Slots \cup {0}, count \in 1..2 : OpenSlots(r, start, count)
        \/ \E n \in Slots :
            \/ \E a \in Tenants : OpenAssignment(r, n, a)
            \/ OpenRelease(r, n)
        \/ CreateSlots(r) \/ AssignSlot(r) \/ UnassignSlot(r)
    \/ \E n \in Slots, status \in SlotStatus : UpdateSlot(n, status)

AccountStep ==
    \/ \E r \in Requests :
        \/ \E b \in Accounts, primary \in 0..2 :
            \/ OpenAccount(r, b, "add", primary, TRUE)
            \/ \E active \in BOOLEAN : OpenAccount(r, b, "change", primary, active)
        \/ UnsetPrimary(r) \/ AddAccount(r) \/ ChangeAccount(r)
    \/ \E b \in Accounts : DeleteAccount(b)

MeterStep ==
    \/ \E r \in Requests :
        \/ \E p \in Periods, v \in Values :
            \/ \E previous \in Values \cup {NoRow} : OpenReading(r, p, v, previous)
            \/ OpenCorrection(r, p, v)
        \/ \E p \in Periods : OpenRemoval(r, p)
        \/ ReadPrevious(r) \/ EnterReading(r) \/ CorrectReading(r) \/ RemoveReading(r)
    \/ \E p \in Periods : BillReading(p)

FailAny ==
    /\ \E r \in Requests : Fail(r)
    /\ UNCHANGED <<contractVars, policyVars, cardVars, parkingVars, accountVars, meterVars>>

OfficeNext ==
    \/ ContractStep /\ BesidesContracts
    \/ PolicyStep /\ BesidesCards /\ UNCHANGED cardVars
    \/ CardStep /\ BesidesCards
    \/ ParkingStep /\ BesidesParking
    \/ AccountStep /\ BesidesAccounts
    \/ MeterStep /\ BesidesMeters
    \/ FailAny

OfficeSpec == OfficeInit /\ [][OfficeNext]_officeVars
=============================================================================
