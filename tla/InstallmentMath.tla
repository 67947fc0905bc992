-------------------------- MODULE InstallmentMath --------------------------
(***************************************************************************)
(* How a purchase is divided into monthly installments: the private method *)
(* computeInstallmentAmount of ExpensesService.  Amounts are integers, in  *)
(* cents (schema.prisma, Expense.amount).                                  *)
(***************************************************************************)
EXTENDS Integers

\* Mistake: rounding up leaves the last installment short, or nothing for it.
BaseRoundedUp(total, count) == (total + count - 1) \div count

\* Math.floor(totalAmount / installmentsCount): every installment but the last.
BaseInstallment(total, count) == total \div count

\* Mistake: the last installment is one like the others.
AllInstallmentsAlike(total, count, number) == BaseInstallment(total, count)

\* The last installment takes what the base installments left.
InstallmentAmount(total, count, number) ==
    IF number < count
    THEN BaseInstallment(total, count)
    ELSE total - BaseInstallment(total, count) * (count - 1)
=============================================================================
